---- MODULE Spec2Model ----
(***************************************************************************)
(* Model of the batch pipeline of the registration-sheet generator         *)
(* (generate_sheets_ultra_optimized.js, kept in src/unnamed/part_004):     *)
(* generateFichas(parentId) with its cached set-keyed database queries,    *)
(* the choice of the applicant pool, the per-applicant assembly of the     *)
(* nested document, the render batches and the final ZIP.                  *)
(*                                                                         *)
(* One action of the model is one stretch of generateFichas between two    *)
(* awaits: the completion of a pending fetch or render together with the   *)
(* synchronous code that follows it.                                       *)
(***************************************************************************)
EXTENDS Integers, Sequences, FiniteSets, TLC

\* ------------------------------------------------------------------------
\* Bounds of the model
\* ------------------------------------------------------------------------
MaxOppId == 4
MaxReg == 2
MaxAgent == 1
MaxExtra == 1

MaxTime == 3

\* the number of direct calls of the fetch functions
MaxCalls == 2

\* the number of generateFichas calls made one after the other
MaxRuns == 2

\* the number of keys of an evaluation payload
MaxKeys == 3

\* the number of getOrSet calls in flight for one key
MaxRacers == 2

\* the number of cachedQuery calls of a second generateFichas call
MaxOther == 2

\* the number of attachment buffers handed to one merge
MaxAttach == 3

\* const batchSize = 10
batchSize == 10

\* the ttl arguments of cachedQuery, in units of 1800 seconds: 1800 and 3600
TtlShort == 1
TtlLong == 2

OppIds == 1..MaxOppId
\* the parent opportunities a run is started for
ParentIds == {2}
\* agent ids; 0 stands for the NULL of the LEFT JOIN
AgentIds == 0..MaxAgent

VARIABLES
  \* ---- database (read-only during a run) ----
  parentId,        \* argument of generateFichas
  opportunity,     \* opportunity.id -> opportunity.parent_id (0 = NULL)
  registration,    \* registration.id -> [opportunity_id, agent_id]
  prevLink,        \* registration.id -> previousPhaseRegistrationId meta row
  badTemplate,     \* registrations whose data object makes the template throw
  \* ---- module state of the service ----
  cache,           \* CacheManager.localCache: key -> value
  metrics,         \* the metrics object
  queries,         \* client.query calls issued, per fetch function
  timers,          \* pending setTimeout callbacks of CacheManager.set
  written,         \* key -> the time the ttl of its latest set runs out
  \* ---- the shared tier of the CacheManager and the clock ----
  useRedis,        \* CacheManager.useRedis
  redis,           \* the Redis store: key -> [json, due]
  now,             \* the clock, in units of 1800 seconds
  ret,             \* the outcome of the latest direct CacheManager call
  \* ---- what the callers of the service have seen so far ----
  calls,           \* the direct calls of the fetch functions, in order
  finished,        \* the earlier generateFichas calls: outcome and documents
  race,            \* the getOrSet calls in flight for one key, and their writes
  other,           \* a second generateFichas call that is active at the same time
  \* ---- locals of one generateFichas call ----
  pc,              \* where the call is suspended
  error,           \* the error generateFichas rejected with ("" = none)
  pending,         \* the fetches awaited at this point
  children,        \* result of fetchChildrenExcludingNext
  phases,          \* result of fetchAllRelevantPhases
  registrationsByPhase,
  chosenPhaseId,
  registrations,   \* the applicant pool
  parentRegIdMap,
  allMetaData,
  parentMetaData,
  i,               \* loop variable of the batch loop
  docs,            \* pool position -> the data object handed to the template
  batchResults,    \* pool position -> "rendering" | "null" | "file"
  renderCalls,     \* pool positions htmlToPdfBuffer was called for
  pdfFilenames,
  outputFiles,     \* PDF files written into OUTPUT_DIR by this run
  zip              \* the ZIP file: whether it was created, and its entries

dbVars == <<parentId, opportunity, registration, prevLink, badTemplate>>
svcVars == <<cache, metrics, queries, timers, written>>
cmVars == <<useRedis, redis, now, ret>>
histVars == <<calls, finished, race, other>>
fetchVars == <<children, phases, registrationsByPhase, chosenPhaseId,
               registrations, parentRegIdMap, allMetaData, parentMetaData>>
renderVars == <<i, docs, batchResults, renderCalls, pdfFilenames,
                outputFiles, zip>>
vars == <<dbVars, svcVars, cmVars, histVars, pc, error, pending, fetchVars,
          renderVars>>

\* ------------------------------------------------------------------------
\* Helpers on sequences
\* ------------------------------------------------------------------------
Range(s) == {s[k] : k \in DOMAIN s}

Min(S) == CHOOSE x \in S : \A y \in S : x <= y

\* the elements of a finite set of integers in ascending order (ORDER BY id)
RECURSIVE SortAsc(_)
SortAsc(S) == IF S = {} THEN <<>> ELSE <<Min(S)>> \o SortAsc(S \ {Min(S)})

\* Array.prototype.find: the first element of s among those that satisfy the
\* test (passing); <<>> stands for undefined
FindFirst(s, passing) ==
  LET hits == {k \in DOMAIN s : s[k] \in passing}
  IN IF hits = {} THEN <<>> ELSE <<s[Min(hits)]>>

\* decimal digits of a natural number, most significant first
RECURSIVE Digits(_)
Digits(n) == IF n < 10 THEN <<n>> ELSE Append(Digits(n \div 10), n % 10)

\* a < b in the order of Array.prototype.sort() without a comparator:
\* the elements are compared as strings
RECURSIVE SeqLexLess(_, _)
SeqLexLess(a, b) ==
  IF a = <<>> THEN b # <<>>
  ELSE IF b = <<>> THEN FALSE
  ELSE IF Head(a) # Head(b) THEN Head(a) < Head(b)
  ELSE SeqLexLess(Tail(a), Tail(b))

JsLess(a, b) == SeqLexLess(Digits(a), Digits(b))

\* variant of ids.sort() that leaves the array in the order of the caller
JsSortKeepOrder(s) == s

\* ids.sort(): insertion into the sorted prefix, duplicates kept
RECURSIVE JsSort(_)
JsSort(s) ==
  IF s = <<>> THEN <<>>
  ELSE LET rest == JsSort(Tail(s))
           x == Head(s)
           before == SelectSeq(rest, LAMBDA y : JsLess(y, x))
           after == SelectSeq(rest, LAMBDA y : ~JsLess(y, x))
       IN before \o <<x>> \o after

\* ------------------------------------------------------------------------
\* Database contents
\* ------------------------------------------------------------------------
RegIds == DOMAIN registration

\* registration.number: issued in id order
RegNumber(r) == r

\* registration.status: mapped codes (10, 0, 8, 3, 2) and an unmapped one (1)
RegStatus(r) == <<10, 1, 0, 8, 3, 2>>[((r - 1) % 6) + 1]

\* one row of the registration/agent join
RegRow(r) ==
  [registration_id |-> r,
   registration_number |-> RegNumber(r),
   registration_status |-> RegStatus(r),
   phase_id |-> registration[r].opportunity_id,
   agent_id |-> registration[r].agent_id,
   agent_name |-> registration[r].agent_id]

\* registration_field_configuration: every opportunity ph has the fields
\* 2ph-1 and 2ph; the field 2ph is displayed first
FieldsInOrder(ph) == <<2 * ph, 2 * ph - 1>>

\* registration_meta row field_<f> of registration r: absent, or a raw value
\* that is NULL, a text, an ISO date 'YYYY-MM-DD' (parts <<y, m, d>>) or a
\* JSON array of scalars (parts = its items); the registrations whose id is
\* a multiple of 3 have filled in no field at all
RawMeta(r, f) ==
  LET k == IF r % 3 = 0 THEN 0 ELSE (3 * r + f) % 5
  IN CASE k = 0 -> [kind |-> "absent", parts |-> <<>>]
       [] k = 1 -> [kind |-> "text", parts |-> <<r, f>>]
       [] k = 2 -> [kind |-> "date", parts |-> <<2000 + r, 1 + (f % 12), 1 + r>>]
       [] k = 3 -> [kind |-> "list", parts |-> <<r, f>>]
       [] OTHER -> [kind |-> "null", parts |-> <<>>]

\* the display string of formatValue, written as its parts and the separator
\* that joins them: null -> ''; 'YYYY-MM-DD' -> 'DD/MM/YYYY';
\* a JSON array of scalars -> its items joined by '<br/>'; else String(raw)
formatValue(raw) ==
  CASE raw.kind = "null" -> [sep |-> "", parts |-> <<>>]
    [] raw.kind = "date" ->
         [sep |-> "/", parts |-> <<raw.parts[3], raw.parts[2], raw.parts[1]>>]
    [] raw.kind = "list" -> [sep |-> "<br/>", parts |-> raw.parts]
    [] OTHER -> [sep |-> "", parts |-> raw.parts]

\* the registration_evaluation row of registration r in phase ph: none, or
\* a row with its evaluation_data (the keys of the JSON object in order: a
\* criterion key 'c-...' with a numeric or a non-numeric value, 'obs', or
\* another key; or a string that is no JSON) and its persisted aggregate
\* (result), which differs from the sum of the scores after a re-scoring
EvaluationRow(r, ph) ==
  LET k == (r + ph) % 4
  IN CASE k = 0 -> [row |-> FALSE, payload |-> "none", keys |-> <<>>,
                    result |-> 0]
       [] k = 1 -> [row |-> TRUE, payload |-> "object",
                    keys |-> <<[key |-> "c-1", numeric |-> TRUE, num |-> r],
                               [key |-> "obs", numeric |-> FALSE, num |-> 0],
                               [key |-> "c-2", numeric |-> TRUE, num |-> ph]>>,
                    result |-> r + ph]
       [] k = 2 -> [row |-> TRUE, payload |-> "object",
                    keys |-> <<[key |-> "status", numeric |-> TRUE, num |-> 1],
                               [key |-> "c-1", numeric |-> TRUE, num |-> r],
                               [key |-> "c-9", numeric |-> FALSE, num |-> 0]>>,
                    result |-> r + 1]
       [] OTHER -> [row |-> TRUE, payload |-> "invalid", keys |-> <<>>,
                    result |-> 0]

\* getCriteriaListForPhase(phaseId): the phases with an even id have an
\* evaluation method configuration whose sections hold the criterion c-1
getCriteriaListForPhase(ph) ==
  IF ph % 2 = 0 THEN <<[crit_id |-> "c-1", crit_title |-> "title-1"]>>
  ELSE <<>>

STATUS_LABELS ==
  (0 :> "Nao avaliada") @@ (2 :> "Invalida") @@ (3 :> "Nao selecionada")
  @@ (8 :> "Suplente") @@ (10 :> "Selecionada")

\* ------------------------------------------------------------------------
\* The SQL queries
\* ------------------------------------------------------------------------
\* variant of the children query without the exclusion of id p + 1
QueryChildrenKeepNext(p) ==
  SortAsc({o \in DOMAIN opportunity : opportunity[o] = p})

\* SELECT id FROM opportunity WHERE parent_id = $1 AND id != $2 ORDER BY id
QueryChildren(p) ==
  SortAsc({o \in DOMAIN opportunity : opportunity[o] = p /\ o # p + 1})

\* variant of the phase query without the exclusion of id p + 1
QueryRelevantPhasesKeepNext(p) ==
  SortAsc({o \in DOMAIN opportunity : o = p \/ opportunity[o] = p})

\* SELECT id FROM opportunity
\* WHERE (id = $1 OR parent_id = $1) AND id != $1 + 1 ORDER BY id
QueryRelevantPhases(p) ==
  SortAsc({o \in DOMAIN opportunity :
             (o = p \/ opportunity[o] = p) /\ o # p + 1})

\* the rows of one phase in the order of registration.number
RECURSIVE RowsByNumber(_)
RowsByNumber(S) ==
  IF S = {} THEN <<>>
  ELSE LET r == CHOOSE x \in S : \A y \in S : RegNumber(x) <= RegNumber(y)
       IN <<RegRow(r)>> \o RowsByNumber(S \ {r})

\* SELECT ... FROM registration r LEFT JOIN agent a ...
\* WHERE r.opportunity_id = ANY($1) ORDER BY r.opportunity_id, r.number,
\* grouped by phase_id: a phase without rows has no key
QueryRegistrations(phaseIds) ==
  LET withRows == {ph \in Range(phaseIds) :
                     \E r \in RegIds : registration[r].opportunity_id = ph}
  IN [ph \in withRows |->
        RowsByNumber({r \in RegIds : registration[r].opportunity_id = ph})]

\* variant of the link query that keeps the rows parseInt turns into NaN,
\* mapped to 0
QueryParentRegistrationIdsKeepNaN(ids) ==
  LET linked == {r \in Range(ids) \cap RegIds : prevLink[r].row}
  IN [r \in linked |-> IF prevLink[r].numeric THEN prevLink[r].value ELSE 0]

\* SELECT object_id, value FROM registration_meta WHERE object_id = ANY($1)
\* AND key = 'previousPhaseRegistrationId'; a value parseInt turns into NaN
\* is left out of the map
QueryParentRegistrationIds(ids) ==
  LET linked == {r \in Range(ids) \cap RegIds :
                   prevLink[r].row /\ prevLink[r].numeric}
  IN [r \in linked |-> prevLink[r].value]

\* the {label, value} rows of registration r for the fields of phase ph,
\* in display order
MetaRows(r, ph) ==
  LET fs == FieldsInOrder(ph)
      present == SelectSeq(fs, LAMBDA f : RawMeta(r, f).kind # "absent")
  IN [k \in DOMAIN present |->
        [label |-> present[k], value |-> RawMeta(r, present[k])]]

\* SELECT ... FROM registration_meta rm JOIN registration_field_configuration
\* rfc ... WHERE rm.object_id = ANY($1) ORDER BY rm.object_id,
\* rfc.opportunity_id, rfc.display_order, grouped by object_id and phase_id
QueryOrderedMeta(regIds, phaseIds) ==
  LET PhasesOf(r) == {ph \in Range(phaseIds) : MetaRows(r, ph) # <<>>}
      withRows == {r \in Range(regIds) \cap RegIds : PhasesOf(r) # {}}
  IN [r \in withRows |-> [ph \in PhasesOf(r) |-> MetaRows(r, ph)]]

\* ------------------------------------------------------------------------
\* CacheManager (local tier) and cachedQuery
\* ------------------------------------------------------------------------
\* CacheManager.generateKey(prefix, ...params): the id lists are joined by
\* ',' before they become parameters, written here as the lists themselves
generateKey(prefix, a, b) == [prefix |-> prefix, a |-> a, b |-> b]

\* cache.get(key) !== null
CacheHit(key) == key \in DOMAIN cache

\* the value cachedQuery(key, query) resolves with when query yields fresh
CachedResult(key, fresh) == IF CacheHit(key) THEN cache[key] ELSE fresh

\* variant of getOrSet that stores an empty result instead of the value the
\* supplier returned
CacheAfterEmpty(key, fresh) ==
  IF CacheHit(key) THEN cache ELSE cache @@ (key :> <<>>)

\* localCache after cache.getOrSet(key, ...)
CacheAfter(key, fresh) ==
  IF CacheHit(key) THEN cache ELSE cache @@ (key :> fresh)

\* the metrics after cachedQuery returned: the supplier counts a miss and a
\* query, and the cache.get that follows getOrSet finds the key and counts a hit
MetricsAfter(key) ==
  IF CacheHit(key)
  THEN [metrics EXCEPT !.cacheHits = @ + 1]
  ELSE [metrics EXCEPT !.cacheMisses = @ + 1, !.totalQueries = @ + 1,
                       !.cacheHits = @ + 1]

\* the ttl each fetch function passes to cachedQuery
TtlOf(kind) ==
  IF kind \in {"children", "phases"} THEN TtlLong ELSE TtlShort

\* the timers after cachedQuery returned: set() on a miss schedules the delete
TimersAfter(key, ttl) ==
  IF CacheHit(key) THEN timers
  ELSE timers \cup {[key |-> key, due |-> now + ttl]}

\* when the ttl of the entry of key runs out, after cachedQuery returned
WrittenAfter(key, ttl) ==
  IF CacheHit(key) THEN written ELSE (key :> (now + ttl)) @@ written

\* client.query calls per fetch function after cachedQuery returned
QueriesAfter(key, kind) ==
  IF CacheHit(key) THEN queries ELSE [queries EXCEPT ![kind] = @ + 1]

FetchKinds == {"children", "phases", "registrations", "parentLinks", "meta"}

ZeroMetrics == [cacheHits |-> 0, cacheMisses |-> 0, totalQueries |-> 0,
                totalPdfs |-> 0]

\* ------------------------------------------------------------------------
\* generateFichas: the synchronous computations
\* ------------------------------------------------------------------------
Lookup(f, k, default) == IF k \in DOMAIN f THEN f[k] ELSE default

\* const phaseIds = [parentId, ...children.map(c => c.id)]
PhaseIdsOf(chld) == <<parentId>> \o chld

\* the first child, in the order of children, with registrations
FirstChildWithRegs(chld, byPhase) ==
  FindFirst(chld, {c \in Range(chld) : Len(Lookup(byPhase, c, <<>>)) > 0})

\* variant of the pool selection that falls back to the parent phase even
\* when the parent phase has no registration
ChosenPhaseDefaultParent(chld, byPhase) ==
  LET first == FirstChildWithRegs(chld, byPhase)
  IN IF first # <<>> THEN first[1] ELSE parentId

\* chosenPhaseId of the pool selection; 0 stands for null
ChosenPhase(chld, byPhase) ==
  LET first == FirstChildWithRegs(chld, byPhase)
  IN IF first # <<>> THEN first[1]
     ELSE IF Len(Lookup(byPhase, parentId, <<>>)) > 0 THEN parentId
     ELSE 0

\* registrations of the pool selection
ChosenRegistrations(chld, byPhase) ==
  Lookup(byPhase, ChosenPhase(chld, byPhase), <<>>)

\* Array.from(allRegIdsSet): the registration ids of all phases, in the order
\* of first insertion
RECURSIVE Dedup(_)
Dedup(s) ==
  IF s = <<>> THEN <<>>
  ELSE LET init == Dedup(SubSeq(s, 1, Len(s) - 1))
           x == s[Len(s)]
       IN IF x \in Range(init) THEN init ELSE Append(init, x)

RECURSIVE ConcatRegIds(_, _)
ConcatRegIds(phs, byPhase) ==
  IF phs = <<>> THEN <<>>
  ELSE LET rows == Lookup(byPhase, Head(phs), <<>>)
       IN [k \in DOMAIN rows |-> rows[k].registration_id]
          \o ConcatRegIds(Tail(phs), byPhase)

AllRegIds(phs, byPhase) == Dedup(ConcatRegIds(phs, byPhase))

\* Object.values(parentRegIdMap).filter(id => id !== null): the values in
\* ascending order of the integer keys
ValidParentIds(map) ==
  LET keys == SortAsc(DOMAIN map)
  IN [k \in DOMAIN keys |-> map[keys[k]]]

\* rawArray.map(item => ({label, value: formatValue(item.value)}))
FormatRows(rows) ==
  [k \in DOMAIN rows |->
     [label |-> rows[k].label, value |-> formatValue(rows[k].value)]]

\* parentMetaArray of one pool registration
ParentMetaArray(reg, map, pmeta) ==
  IF reg.registration_id \in DOMAIN map
     /\ map[reg.registration_id] \in DOMAIN pmeta
  THEN FormatRows(Lookup(pmeta[map[reg.registration_id]], parentId, <<>>))
  ELSE <<>>

\* variant of regIdsByPhase that looks for the agent's registration before
\* the parent link
RegIdByPhaseAgentFirst(reg, ph, byPhase, map) ==
  LET regsThisPhase == Lookup(byPhase, ph, <<>>)
      match == FindFirst(regsThisPhase,
                         {r \in Range(regsThisPhase) :
                            r.agent_id = reg.agent_id})
  IN IF match # <<>> THEN match[1].registration_id
     ELSE IF ph = parentId /\ reg.registration_id \in DOMAIN map
          THEN map[reg.registration_id]
          ELSE 0

\* regIdsByPhase[phase.id]; 0 stands for null
RegIdByPhase(reg, ph, byPhase, map) ==
  LET regsThisPhase == Lookup(byPhase, ph, <<>>)
      match == FindFirst(regsThisPhase,
                         {r \in Range(regsThisPhase) :
                            r.agent_id = reg.agent_id})
  IN IF ph = parentId /\ reg.registration_id \in DOMAIN map
     THEN map[reg.registration_id]
     ELSE IF match # <<>> THEN match[1].registration_id ELSE 0

\* variant of phaseRegId without the fall-back to the applicant's own id
PhaseRegIdUnresolved(reg, ph, byPhase, map) ==
  RegIdByPhase(reg, ph, byPhase, map)

\* const phaseRegId = regIdsByPhase[phase.id] || reg.registration_id
PhaseRegId(reg, ph, byPhase, map) ==
  IF RegIdByPhase(reg, ph, byPhase, map) # 0
  THEN RegIdByPhase(reg, ph, byPhase, map)
  ELSE reg.registration_id

\* key.startsWith('c-')
CriterionKeys == {"c-1", "c-2", "c-9"}

\* totalScore += num over the numeric pairs
RECURSIVE SumScores(_)
SumScores(pairs) ==
  IF pairs = <<>> THEN 0 ELSE Head(pairs).num + SumScores(Tail(pairs))

\* the label of a numeric pair: found ? found.crit_title : p.crit_id
CriterionLabel(id, ph) ==
  LET criteriaList == getCriteriaListForPhase(ph)
      found == FindFirst(criteriaList,
                         {c \in Range(criteriaList) : c.crit_id = id})
  IN IF found # <<>> THEN found[1].crit_title ELSE id

\* variant of the evaluation that leaves out the scores whose key matches no
\* configured criterion
EvaluationDropUnmatched(row, ph) ==
  LET rawEval == IF row.payload = "object" THEN row.keys ELSE <<>>
      numericPairs == SelectSeq(rawEval, LAMBDA e :
                        /\ e.key \in CriterionKeys /\ e.numeric
                        /\ CriterionLabel(e.key, ph) # e.key)
  IN IF ~row.row
     THEN [criteria |-> <<>>, parecer |-> "", total |-> 0]
     ELSE [criteria |-> [k \in DOMAIN numericPairs |->
                           [label |-> CriterionLabel(numericPairs[k].key, ph),
                            score |-> numericPairs[k].num]],
           parecer |-> IF \E k \in DOMAIN rawEval : rawEval[k].key = "obs"
                       THEN "obs" ELSE "",
           total |-> SumScores(numericPairs)]

\* the body of getEvaluationForRegistrationAndPhase once the row is read:
\* {criteria, parecer, total} of the evaluation row in phase ph
EvaluationOf(row, ph) ==
  LET rawEval == IF row.payload = "object" THEN row.keys ELSE <<>>
      numericPairs == SelectSeq(rawEval, LAMBDA e :
                        e.key \in CriterionKeys /\ e.numeric)
  IN IF ~row.row
     THEN [criteria |-> <<>>, parecer |-> "", total |-> 0]
     ELSE [criteria |-> [k \in DOMAIN numericPairs |->
                           [label |-> CriterionLabel(numericPairs[k].key, ph),
                            score |-> numericPairs[k].num]],
           parecer |-> IF \E k \in DOMAIN rawEval : rawEval[k].key = "obs"
                       THEN "obs" ELSE "",
           total |-> SumScores(numericPairs)]

\* getEvaluationForRegistrationAndPhase(regNumber, phaseId) of the per-row
\* generator
getEvaluationForRegistrationAndPhase(regNumber, ph) ==
  EvaluationOf(EvaluationRow(regNumber, ph), ph)

\* variant of the evaluation of a sub-record that shows both blocks
EvaluationBothBlocks ==
  [sections |-> <<>>, status |-> "", parecer |-> "", total |-> 0,
   hasTechnical |-> TRUE, hasSimplified |-> TRUE]

\* evaluation: { sections: [], status: '', parecer: '', total: 0,
\* hasTechnical: false, hasSimplified: false }
EmptyEvaluation ==
  [sections |-> <<>>, status |-> "", parecer |-> "", total |-> 0,
   hasTechnical |-> FALSE, hasSimplified |-> FALSE]

\* rows of one element of dataPhases
PhaseRows(reg, ph, byPhase, map, ameta, pmeta) ==
  IF ph = parentId
  THEN ParentMetaArray(reg, map, pmeta)
  ELSE FormatRows(Lookup(Lookup(ameta, PhaseRegId(reg, ph, byPhase, map), <<>>),
                         ph, <<>>))

\* one element of dataPhases
DataPhase(reg, ph, byPhase, map, ameta, pmeta) ==
  [id |-> ph,
   name |-> ph,
   rows |-> PhaseRows(reg, ph, byPhase, map, ameta, pmeta),
   evaluation |-> EmptyEvaluation,
   regStatusText |-> Lookup(STATUS_LABELS, reg.registration_status, ""),
   files |-> <<>>,
   evalRegId |-> PhaseRegId(reg, ph, byPhase, map)]

\* the data object of one pool registration
AssembleData(reg, phs, byPhase, map, ameta, pmeta) ==
  [registration_number |-> reg.registration_number,
   agent |-> [id |-> reg.agent_id, name |-> reg.agent_name],
   phases |-> [k \in DOMAIN phs |->
                 DataPhase(reg, phs[k], byPhase, map, ameta, pmeta)]]

\* the PDF files found in the directory FILES_DIR/<id> of a registration:
\* registrations with an odd id have uploaded one file, a PDF of one page
AttachmentFiles(id) ==
  IF id % 2 = 1
  THEN <<[dir |-> id, file |-> 1, pdf |-> TRUE, pages |-> 1]>>
  ELSE <<>>

\* the pages copied from an attachment: PDFDocument.load(buf) throws for a
\* buffer that is no PDF, else copyPages(pdf, pdf.getPageIndices())
CopiedPages(buf) ==
  IF buf.pdf
  THEN [n \in 1..buf.pages |-> [dir |-> buf.dir, file |-> buf.file, page |-> n]]
  ELSE <<>>

\* variant of the merge that gives up at the first buffer that is no PDF
RECURSIVE mergeUntilInvalid(_, _)
mergeUntilInvalid(mainBuffer, attachmentBuffers) ==
  IF attachmentBuffers = <<>> \/ ~Head(attachmentBuffers).pdf THEN mainBuffer
  ELSE mergeUntilInvalid(mainBuffer \o CopiedPages(Head(attachmentBuffers)),
                         Tail(attachmentBuffers))

\* mergeWithAttachments(mainBuffer, attachmentBuffers): the pages of the
\* main document, then for every attachment in turn the pages copied from
\* it; the catch block skips a buffer that does not load
RECURSIVE mergeWithAttachments(_, _)
mergeWithAttachments(mainBuffer, attachmentBuffers) ==
  IF attachmentBuffers = <<>> THEN mainBuffer
  ELSE mergeWithAttachments(mainBuffer \o CopiedPages(Head(attachmentBuffers)),
                            Tail(attachmentBuffers))

\* const pdfBuffer = await htmlToPdfBuffer(html): the rendering of data
MainPdf(data) == <<[main |-> data.registration_number]>>

\* fs.writeFileSync(filepath, pdfBuffer): the contents of the file saved for
\* the data object
SavedPdf(data) == MainPdf(data)

\* `ficha_${parentId}_${regNumber}_${nomeSemAcento}.pdf`
Filename(reg) == <<parentId, reg.registration_number, reg.agent_name>>

\* ------------------------------------------------------------------------
\* generateFichas: the steps between awaits
\* ------------------------------------------------------------------------
\* the catch block: the error is rethrown to the caller
Reject(kind) ==
  /\ pc' = "failed"
  /\ error' = kind
  /\ pending' = {}

\* a query that throws inside the supplier of getOrSet: the miss and the query
\* were counted, nothing is stored
ThrowInQuery(kind) ==
  /\ Reject(kind)
  /\ metrics' = [metrics EXCEPT !.cacheMisses = @ + 1, !.totalQueries = @ + 1]
  /\ UNCHANGED <<cache, queries, timers, written>>

\* cachedQuery returned for key
ReturnFromQuery(key, kind, fresh) ==
  /\ cache' = CacheAfter(key, fresh)
  /\ metrics' = MetricsAfter(key)
  /\ queries' = QueriesAfter(key, kind)
  /\ timers' = TimersAfter(key, TtlOf(kind))
  /\ written' = WrittenAfter(key, TtlOf(kind))

\* variant of the slice that takes the element at index start - 1 again
BatchOfOverlapping(start, regs) ==
  {j \in DOMAIN regs : start <= j /\ j <= start + batchSize}

\* pool positions of the batch that starts at index start (0-based)
BatchOf(start, regs) ==
  {j \in DOMAIN regs : start < j /\ j <= start + batchSize}

\* one round of the batch loop up to `await Promise.all(batchPromises)`:
\* every registration of the batch is assembled and handed to the template;
\* htmlToPdfBuffer is called unless the template threw
EnterBatch(start, pmeta) ==
  LET batch == BatchOf(start, registrations)
      Bad(j) == registrations[j].registration_id \in badTemplate
  IN /\ i' = start
     /\ docs' = docs @@
          [j \in batch |->
             AssembleData(registrations[j], phases, registrationsByPhase,
                          parentRegIdMap, allMetaData, pmeta)]
     /\ batchResults' = batchResults @@
          [j \in batch |-> IF Bad(j) THEN "null" ELSE "rendering"]
     /\ renderCalls' = renderCalls \cup {j \in batch : ~Bad(j)}

\* generateFichas(parentId) is called: the metrics are reset and the two
\* basic fetches are issued
Start ==
  /\ pc = "idle"
  /\ pc' = "basic"
  /\ pending' = {"children", "phases"}
  /\ metrics' = ZeroMetrics
  /\ UNCHANGED <<dbVars, cmVars, histVars, cache, queries, timers, written, error,
                 fetchVars, renderVars>>

\* fetchChildrenExcludingNext(parentId) settles
ChildrenDone ==
  LET key == generateKey("children", <<parentId>>, <<>>)
  IN /\ pc = "basic"
     /\ "children" \in pending
     /\ \/ /\ ReturnFromQuery(key, "children", QueryChildren(parentId))
           /\ children' = CachedResult(key, QueryChildren(parentId))
           /\ pending' = pending \ {"children"}
           /\ UNCHANGED <<pc, error>>
        \/ /\ ~CacheHit(key)
           /\ ThrowInQuery("children")
           /\ UNCHANGED children
     /\ UNCHANGED <<dbVars, cmVars, histVars, phases, registrationsByPhase, chosenPhaseId,
                    registrations, parentRegIdMap, allMetaData,
                    parentMetaData, renderVars>>

\* fetchAllRelevantPhases(parentId) settles
PhasesDone ==
  LET key == generateKey("relevant_phases", <<parentId>>, <<>>)
  IN /\ pc = "basic"
     /\ "phases" \in pending
     /\ \/ /\ ReturnFromQuery(key, "phases", QueryRelevantPhases(parentId))
           /\ phases' = CachedResult(key, QueryRelevantPhases(parentId))
           /\ pending' = pending \ {"phases"}
           /\ UNCHANGED <<pc, error>>
        \/ /\ ~CacheHit(key)
           /\ ThrowInQuery("phases")
           /\ UNCHANGED phases
     /\ UNCHANGED <<dbVars, cmVars, histVars, children, registrationsByPhase, chosenPhaseId,
                    registrations, parentRegIdMap, allMetaData,
                    parentMetaData, renderVars>>

\* Promise.all([children, phases]) resolved: fetchRegistrationsForPhases is
\* issued
AfterBasic ==
  /\ pc = "basic"
  /\ pending = {}
  /\ pc' = "regs"
  /\ pending' = {"registrations"}
  /\ UNCHANGED <<dbVars, cmVars, histVars, svcVars, error, fetchVars, renderVars>>

\* fetchRegistrationsForPhases(phaseIds) settles; the pool is chosen, and the
\* two preload fetches are issued unless no registration was found
RegistrationsDone ==
  LET phaseIds == PhaseIdsOf(children)
      key == generateKey("registrations", JsSort(phaseIds), <<>>)
      byPhase == CachedResult(key, QueryRegistrations(phaseIds))
  IN /\ pc = "regs"
     /\ \/ /\ ReturnFromQuery(key, "registrations",
                              QueryRegistrations(phaseIds))
           /\ registrationsByPhase' = byPhase
           /\ chosenPhaseId' = ChosenPhase(children, byPhase)
           /\ registrations' = ChosenRegistrations(children, byPhase)
           /\ IF ChosenPhase(children, byPhase) = 0
              THEN Reject("noRegistrations")
              ELSE /\ pc' = "preload"
                   /\ pending' = {"parentLinks", "meta"}
                   /\ UNCHANGED error
        \/ /\ ~CacheHit(key)
           /\ ThrowInQuery("registrations")
           /\ UNCHANGED <<registrationsByPhase, chosenPhaseId, registrations>>
     /\ UNCHANGED <<dbVars, cmVars, histVars, children, phases, parentRegIdMap, allMetaData,
                    parentMetaData, renderVars>>

\* fetchParentRegistrationIds(allRegIds) settles
ParentLinksDone ==
  LET ids == AllRegIds(phases, registrationsByPhase)
      key == generateKey("parent_reg_ids", JsSort(ids), <<>>)
  IN /\ pc = "preload"
     /\ "parentLinks" \in pending
     /\ \/ /\ ids = <<>>
           /\ parentRegIdMap' = <<>>
           /\ pending' = pending \ {"parentLinks"}
           /\ UNCHANGED <<svcVars, pc, error>>
        \/ /\ ids # <<>>
           /\ ReturnFromQuery(key, "parentLinks",
                              QueryParentRegistrationIds(ids))
           /\ parentRegIdMap' =
                CachedResult(key, QueryParentRegistrationIds(ids))
           /\ pending' = pending \ {"parentLinks"}
           /\ UNCHANGED <<pc, error>>
        \/ /\ ids # <<>>
           /\ ~CacheHit(key)
           /\ ThrowInQuery("parentLinks")
           /\ UNCHANGED parentRegIdMap
     /\ UNCHANGED <<dbVars, cmVars, histVars, children, phases, registrationsByPhase,
                    chosenPhaseId, registrations, allMetaData,
                    parentMetaData, renderVars>>

\* fetchOrderedMetaForRegistrations(allRegIds, allPhaseIds) settles
MetaDone ==
  LET ids == AllRegIds(phases, registrationsByPhase)
      key == generateKey("meta_data", JsSort(ids), JsSort(phases))
  IN /\ pc = "preload"
     /\ "meta" \in pending
     /\ \/ /\ ids = <<>> \/ phases = <<>>
           /\ allMetaData' = <<>>
           /\ pending' = pending \ {"meta"}
           /\ UNCHANGED <<svcVars, pc, error>>
        \/ /\ ids # <<>> /\ phases # <<>>
           /\ ReturnFromQuery(key, "meta", QueryOrderedMeta(ids, phases))
           /\ allMetaData' = CachedResult(key, QueryOrderedMeta(ids, phases))
           /\ pending' = pending \ {"meta"}
           /\ UNCHANGED <<pc, error>>
        \/ /\ ids # <<>> /\ phases # <<>>
           /\ ~CacheHit(key)
           /\ ThrowInQuery("meta")
           /\ UNCHANGED allMetaData
     /\ UNCHANGED <<dbVars, cmVars, histVars, children, phases, registrationsByPhase,
                    chosenPhaseId, registrations, parentRegIdMap,
                    parentMetaData, renderVars>>

\* variant of the step after the preload that starts the first batch before
\* the field values of the linked parent registrations have arrived
AfterPreloadRenderFirst ==
  /\ pc = "preload"
  /\ pending = {}
  /\ IF ValidParentIds(parentRegIdMap) # <<>>
     THEN /\ pc' = "parentMeta"
          /\ pending' = {"parentMeta"}
          /\ UNCHANGED parentMetaData
     ELSE /\ pc' = "batch"
          /\ pending' = {}
          /\ parentMetaData' = <<>>
  /\ EnterBatch(0, <<>>)
  /\ UNCHANGED <<pdfFilenames, outputFiles, zip>>
  /\ UNCHANGED <<dbVars, cmVars, histVars, svcVars, error, children, phases,
                 registrationsByPhase, chosenPhaseId, registrations,
                 parentRegIdMap, allMetaData>>

\* Promise.all([parentRegIdMap, allMetaData]) resolved: the field values of
\* the linked parent registrations are fetched, or, without any link, the
\* batch loop is entered
AfterPreload ==
  /\ pc = "preload"
  /\ pending = {}
  /\ IF ValidParentIds(parentRegIdMap) # <<>>
     THEN /\ pc' = "parentMeta"
          /\ pending' = {"parentMeta"}
          /\ UNCHANGED <<parentMetaData, renderVars>>
     ELSE /\ pc' = "batch"
          /\ pending' = {}
          /\ parentMetaData' = <<>>
          /\ EnterBatch(0, <<>>)
          /\ UNCHANGED <<pdfFilenames, outputFiles, zip>>
  /\ UNCHANGED <<dbVars, cmVars, histVars, svcVars, error, children, phases,
                 registrationsByPhase, chosenPhaseId, registrations,
                 parentRegIdMap, allMetaData>>

\* fetchOrderedMetaForRegistrations(validParentIds, [parentId]) settles and
\* the batch loop is entered
ParentMetaDone ==
  LET ids == ValidParentIds(parentRegIdMap)
      key == generateKey("meta_data", JsSort(ids), <<parentId>>)
      fresh == QueryOrderedMeta(ids, <<parentId>>)
  IN /\ pc = "parentMeta"
     /\ \/ /\ ReturnFromQuery(key, "meta", fresh)
           /\ parentMetaData' = CachedResult(key, fresh)
           /\ pc' = "batch"
           /\ pending' = {}
           /\ EnterBatch(0, CachedResult(key, fresh))
           /\ UNCHANGED <<error, pdfFilenames, outputFiles, zip>>
        \/ /\ ~CacheHit(key)
           /\ ThrowInQuery("parentMeta")
           /\ UNCHANGED <<parentMetaData, renderVars>>
     /\ UNCHANGED <<dbVars, cmVars, histVars, children, phases, registrationsByPhase,
                    chosenPhaseId, registrations, parentRegIdMap,
                    allMetaData>>

\* htmlToPdfBuffer settles for pool position j: the PDF is written and the
\* promise of j resolves with the file name, or the render or the write threw
\* and it resolves with null
RenderDone(j) ==
  /\ pc = "batch"
  /\ j \in DOMAIN batchResults
  /\ batchResults[j] = "rendering"
  /\ \/ /\ batchResults' = [batchResults EXCEPT ![j] = "file"]
        /\ outputFiles' = outputFiles \cup {Filename(registrations[j])}
     \/ /\ batchResults' = [batchResults EXCEPT ![j] = "null"]
        /\ UNCHANGED outputFiles
  /\ UNCHANGED <<dbVars, cmVars, histVars, svcVars, pc, error, pending, fetchVars, i, docs,
                 renderCalls, pdfFilenames, zip>>

\* variant of the batch result without the filter of the null results
BatchFilenamesUnfiltered(start) ==
  LET batch == SortAsc(BatchOf(start, registrations))
  IN [k \in DOMAIN batch |-> Filename(registrations[batch[k]])]

\* batchResults.filter(f => f !== null) of the batch at index start
BatchFilenames(start) ==
  LET batch == SortAsc(BatchOf(start, registrations))
      ok == SelectSeq(batch, LAMBDA j : batchResults[j] = "file")
  IN [k \in DOMAIN ok |-> Filename(registrations[ok[k]])]

\* variant of the wait for the batch that resumes at the first settled promise
BatchAnySettled ==
  \E j \in BatchOf(i, registrations) : batchResults[j] # "rendering"

\* await Promise.all(batchPromises): every promise of the batch has settled
BatchIsSettled ==
  \A j \in BatchOf(i, registrations) : batchResults[j] # "rendering"

\* Promise.all(batchPromises) resolved: the file names are appended, and the
\* next batch starts or, after the last batch, the ZIP is created
BatchSettled ==
  /\ pc = "batch"
  /\ BatchIsSettled
  /\ IF i + batchSize < Len(registrations)
     THEN /\ pdfFilenames' = pdfFilenames \o BatchFilenames(i)
          /\ EnterBatch(i + batchSize, parentMetaData)
          /\ UNCHANGED <<pc, outputFiles, zip>>
     ELSE /\ pdfFilenames' = pdfFilenames \o BatchFilenames(i)
          /\ zip' = [created |-> TRUE,
                     entries |-> pdfFilenames \o BatchFilenames(i)]
          /\ pc' = "zip"
          /\ UNCHANGED <<i, docs, batchResults, renderCalls, outputFiles>>
  /\ UNCHANGED <<dbVars, cmVars, histVars, svcVars, error, pending, fetchVars>>

\* the 'close' event of the ZIP stream: generateFichas resolves
ZipClose ==
  /\ pc = "zip"
  /\ pc' = "done"
  /\ UNCHANGED <<dbVars, cmVars, histVars, svcVars, error, pending, fetchVars, renderVars>>

Next ==
  \/ Start
  \/ ChildrenDone
  \/ PhasesDone
  \/ AfterBasic
  \/ RegistrationsDone
  \/ ParentLinksDone
  \/ MetaDone
  \/ AfterPreload
  \/ ParentMetaDone
  \/ \E j \in DOMAIN registrations : RenderDone(j)
  \/ BatchSettled
  \/ ZipClose

\* ------------------------------------------------------------------------
\* CacheManager: direct calls of get, set, del, clear and getOrSet, the
\* setTimeout callbacks of set, and the clock.  A call is one action: the
\* calls are issued one after the other.
\* ------------------------------------------------------------------------
runVars == <<dbVars, histVars, metrics, queries, pc, error, pending,
             fetchVars, renderVars>>

\* the keys and the values of the direct calls: keys of the children query
\* and results of it
CacheKeys == {generateKey("children", <<p>>, <<>>) : p \in {2, 4}}

CacheValues == {<<1>>, <<4>>}

Ttls == {TtlShort, TtlLong}

\* the result of get: a value, or null
Found(v) == [found |-> TRUE, value |-> v]

Null == [found |-> FALSE, value |-> <<>>]

\* JSON.stringify and JSON.parse
Stringify(v) == [json |-> v]

Parse(str) == str.json

Without(f, K) == [k \in DOMAIN f \ K |-> f[k]]

\* this.localCache.get(key) || null
LocalGet(key) == IF key \in DOMAIN cache THEN Found(cache[key]) ELSE Null

\* const value = await this.redis.get(key); value ? JSON.parse(value) : null
\* (an entry written by setex is gone once its ttl has run out)
RedisGet(key) ==
  IF key \in DOMAIN redis /\ now < redis[key].due
  THEN Found(Parse(redis[key].str))
  ELSE Null

\* whether a Redis command of the call throws
RedisFaults == IF useRedis THEN BOOLEAN ELSE {FALSE}

\* get(key), where threw tells whether this.redis.get threw
CmGetResult(key, threw) ==
  IF useRedis /\ ~threw THEN RedisGet(key) ELSE LocalGet(key)

\* the Redis store after set(key, value, ttl)
RedisAfterSet(key, value, ttl, threw) ==
  IF useRedis /\ ~threw
  THEN (key :> [str |-> Stringify(value), due |-> now + ttl]) @@ redis
  ELSE redis

\* variant of set that keeps the entry the local store already holds
LocalAfterSetKeepFirst(key, value, threw) ==
  IF key \in DOMAIN cache THEN cache ELSE (key :> value) @@ cache

\* variant of set in which the error of the Redis write escapes the call
\* before the local store is written
LocalAfterSetUnlessThrew(key, value, threw) ==
  IF threw THEN cache ELSE (key :> value) @@ cache

\* localCache after set(key, value, ttl): this.localCache.set(key, value)
LocalAfterSet(key, value, threw) == (key :> value) @@ cache

\* the ttl of the latest set of key has not run out, and no del or clear
\* has removed the entry since
Within(key) == key \in DOMAIN written /\ now < written[key]

CallRecord(op, key, got, raised, threw, invoked) ==
  [op |-> op, key |-> key, found |-> got.found, value |-> got.value,
   raised |-> raised, shared |-> useRedis, threw |-> threw,
   within |-> Within(key), supplierCalls |-> invoked]

\* await cache.get(key)
CmGet(key) ==
  /\ \E threw \in RedisFaults :
       ret' = CallRecord("get", key, CmGetResult(key, threw), FALSE, threw, 0)
  /\ UNCHANGED <<runVars, cache, timers, written, useRedis, redis, now>>

\* the stores after set(key, value, ttl)
StoreByOneSet(key, value, ttl, threw) ==
  /\ redis' = RedisAfterSet(key, value, ttl, threw)
  /\ cache' = LocalAfterSet(key, value, threw)
  /\ timers' = timers \cup {[key |-> key, due |-> now + ttl]}
  /\ written' = (key :> (now + ttl)) @@ written

\* await cache.set(key, value, ttl)
CmSet(key, value, ttl) ==
  /\ \E threw \in RedisFaults :
       /\ StoreByOneSet(key, value, ttl, threw)
       /\ ret' = CallRecord("set", key, Found(value), FALSE, threw, 0)
  /\ UNCHANGED <<runVars, useRedis, now>>

\* await cache.del(key)
CmDel(key) ==
  /\ \E threw \in RedisFaults :
       /\ redis' = IF useRedis /\ ~threw THEN Without(redis, {key}) ELSE redis
       /\ ret' = CallRecord("del", key, Null, FALSE, threw, 0)
  /\ cache' = Without(cache, {key})
  /\ written' = Without(written, {key})
  /\ UNCHANGED <<runVars, timers, useRedis, now>>

\* await cache.clear()
CmClear ==
  /\ \E threw \in RedisFaults :
       /\ redis' = IF useRedis /\ ~threw THEN <<>> ELSE redis
       /\ ret' = CallRecord("clear", <<>>, Null, FALSE, threw, 0)
  /\ cache' = <<>>
  /\ written' = <<>>
  /\ UNCHANGED <<runVars, timers, useRedis, now>>

\* variant of getOrSet that stores an empty result when the fallback
\* function throws
CmGetOrSetStoringFailure(key, value, ttl) ==
  /\ \E threwGet \in RedisFaults :
       LET got == CmGetResult(key, threwGet)
       IN IF got.found
          THEN /\ ret' = CallRecord("getOrSet", key, got, FALSE, threwGet, 0)
               /\ UNCHANGED <<cache, timers, written, redis>>
          ELSE \/ \E threwSet \in RedisFaults :
                    /\ StoreByOneSet(key, <<>>, ttl, threwSet)
                    /\ ret' = CallRecord("getOrSet", key, Null, TRUE,
                                         threwGet, 1)
               \/ \E threwSet \in RedisFaults :
                    /\ StoreByOneSet(key, value, ttl, threwSet)
                    /\ ret' = CallRecord("getOrSet", key, Found(value),
                                         FALSE, threwGet, 1)
  /\ UNCHANGED <<runVars, useRedis, now>>

\* await cache.getOrSet(key, fallbackFunction, ttl), where the fallback
\* function resolves with value or throws
CmGetOrSet(key, value, ttl) ==
  /\ \E threwGet \in RedisFaults :
       LET got == CmGetResult(key, threwGet)
       IN IF got.found
          THEN /\ ret' = CallRecord("getOrSet", key, got, FALSE, threwGet, 0)
               /\ UNCHANGED <<cache, timers, written, redis>>
          ELSE \/ /\ ret' = CallRecord("getOrSet", key, Null, TRUE,
                                       threwGet, 1)
                  /\ UNCHANGED <<cache, timers, written, redis>>
               \/ \E threwSet \in RedisFaults :
                    /\ StoreByOneSet(key, value, ttl, threwSet)
                    /\ ret' = CallRecord("getOrSet", key, Found(value),
                                         FALSE, threwGet, 1)
  /\ UNCHANGED <<runVars, useRedis, now>>

\* the callback of setTimeout(() => this.localCache.delete(key), ttl * 1000)
TimerFires(t) ==
  /\ t \in timers
  /\ t.due <= now
  /\ cache' = Without(cache, {t.key})
  /\ timers' = timers \ {t}
  /\ UNCHANGED <<runVars, written, useRedis, redis, now, ret>>

\* time passes; a timer that is due fires before the clock moves on
Tick ==
  /\ now < MaxTime
  /\ \A t \in timers : now < t.due
  /\ now' = now + 1
  /\ UNCHANGED <<runVars, cache, timers, written, useRedis, redis, ret>>

\* this.redis.on('error', ...): the shared tier is switched off
RedisErrorEvent ==
  /\ useRedis
  /\ useRedis' = FALSE
  /\ UNCHANGED <<runVars, cache, timers, written, redis, now, ret>>

\* the direct calls on the keys of K
CacheCalls(K) ==
  \/ \E key \in K : CmGet(key)
  \/ \E key \in K, value \in CacheValues, ttl \in Ttls :
       CmSet(key, value, ttl)
  \/ \E key \in K : CmDel(key)
  \/ CmClear
  \/ \E key \in K, value \in CacheValues, ttl \in Ttls :
       CmGetOrSet(key, value, ttl)

\* calls in quick succession, while the shared tier may fail
NextCache ==
  \/ CacheCalls(CacheKeys)
  \/ RedisErrorEvent

\* calls on one key while time passes
NextTtl ==
  \/ CacheCalls({generateKey("children", <<2>>, <<>>)})
  \/ \E t \in timers : TimerFires(t)
  \/ Tick

\* ------------------------------------------------------------------------
\* The fetch functions called one after the other
\* ------------------------------------------------------------------------
\* the fetch functions whose cache key is built from id arrays
KeyedKinds == {"registrations", "parentLinks", "meta"}

\* the id arrays of the callers: one- and two-digit ids in either order
IdArrays == {<<>>, <<2>>, <<10>>, <<2, 10>>, <<10, 2>>}

\* `if (!childRegistrationIds.length) return {}` and
\* `if (!regIds.length || !phaseIds.length) return {}`
ReturnsEarly(kind, a, b) ==
  \/ kind = "parentLinks" /\ a = <<>>
  \/ kind = "meta" /\ (a = <<>> \/ b = <<>>)

\* const cacheKey = CacheManager.generateKey(prefix, ids.sort().join(','))
KeyOf(kind, a, b) ==
  CASE kind = "registrations" -> generateKey("registrations", JsSort(a), <<>>)
    [] kind = "parentLinks" -> generateKey("parent_reg_ids", JsSort(a), <<>>)
    [] OTHER -> generateKey("meta_data", JsSort(a), JsSort(b))

\* the result of the query function of each fetch function
QueryOf(kind, a, b) ==
  CASE kind = "registrations" -> QueryRegistrations(a)
    [] kind = "parentLinks" -> QueryParentRegistrationIds(a)
    [] OTHER -> QueryOrderedMeta(a, b)

CallOf(kind, a, b, keyed, queried, failed, result) ==
  [kind |-> kind, a |-> a, b |-> b, keyed |-> keyed,
   key |-> IF keyed THEN KeyOf(kind, a, b) ELSE <<>>,
   queried |-> queried, failed |-> failed, result |-> result]

\* await fetchRegistrationsForPhases(a), await fetchParentRegistrationIds(a)
\* or await fetchOrderedMetaForRegistrations(a, b), from entry to return
FetchCall(kind, a, b) ==
  LET key == KeyOf(kind, a, b)
      fresh == QueryOf(kind, a, b)
  IN /\ Len(calls) < MaxCalls
     /\ \/ /\ ReturnsEarly(kind, a, b)
           /\ calls' = Append(calls, CallOf(kind, a, b, FALSE, FALSE, FALSE,
                                            <<>>))
           /\ UNCHANGED svcVars
        \/ /\ ~ReturnsEarly(kind, a, b)
           /\ ReturnFromQuery(key, kind, fresh)
           /\ calls' = Append(calls, CallOf(kind, a, b, TRUE, ~CacheHit(key),
                                            FALSE, CachedResult(key, fresh)))
        \/ /\ ~ReturnsEarly(kind, a, b)
           /\ ~CacheHit(key)
           /\ metrics' = [metrics EXCEPT !.cacheMisses = @ + 1,
                                         !.totalQueries = @ + 1]
           /\ calls' = Append(calls, CallOf(kind, a, b, TRUE, TRUE, TRUE,
                                            <<>>))
           /\ UNCHANGED <<cache, queries, timers, written>>
     /\ UNCHANGED <<dbVars, cmVars, finished, race, other, pc, error, pending,
                    fetchVars, renderVars>>

\* the callers of the fetch functions
NextKeys ==
  \E kind \in KeyedKinds, a \in IdArrays :
    \E b \in (IF kind = "meta" THEN IdArrays ELSE {<<>>}) :
      FetchCall(kind, a, b)

\* ------------------------------------------------------------------------
\* generateFichas called again, and POST /clear-cache in between
\* ------------------------------------------------------------------------
\* the next POST /generate after a call of generateFichas has resolved or
\* rejected: a new call starts with fresh locals; the cache, the files of
\* OUTPUT_DIR and the ZIP file stay as they are
Again ==
  /\ pc \in {"done", "failed"}
  /\ Len(finished) + 1 < MaxRuns
  /\ finished' = Append(finished, [resolved |-> pc = "done", docs |-> docs])
  /\ pc' = "idle"
  /\ error' = ""
  /\ pending' = {}
  /\ children' = <<>>
  /\ phases' = <<>>
  /\ registrationsByPhase' = <<>>
  /\ chosenPhaseId' = 0
  /\ registrations' = <<>>
  /\ parentRegIdMap' = <<>>
  /\ allMetaData' = <<>>
  /\ parentMetaData' = <<>>
  /\ i' = 0
  /\ docs' = <<>>
  /\ batchResults' = <<>>
  /\ renderCalls' = {}
  /\ pdfFilenames' = <<>>
  /\ UNCHANGED <<dbVars, svcVars, cmVars, calls, race, other, outputFiles,
                 zip>>

\* POST /clear-cache, at any point of a later call
ClearCacheRoute ==
  /\ finished # <<>>
  /\ cache # <<>>
  /\ CmClear

NextTwice ==
  \/ Next
  \/ Again
  \/ ClearCacheRoute

\* ------------------------------------------------------------------------
\* mergeWithAttachments called on its own
\* ------------------------------------------------------------------------
\* attachment buffers: PDFs of one or two pages and a file that is no PDF
AttachmentBuffers ==
  {[dir |-> 1, file |-> 1, pdf |-> TRUE, pages |-> 1],
   [dir |-> 1, file |-> 2, pdf |-> TRUE, pages |-> 2],
   [dir |-> 2, file |-> 1, pdf |-> FALSE, pages |-> 1],
   [dir |-> 2, file |-> 2, pdf |-> FALSE, pages |-> 2]}

AttachmentLists ==
  UNION {[1..n -> AttachmentBuffers] : n \in 0..MaxAttach}

\* rendered main documents of one and of two pages
MainBuffers == {<<[main |-> 1]>>, <<[main |-> 1], [main |-> 2]>>}

\* const merged = await mergeWithAttachments(mainBuffer, attachmentBuffers)
MergeCall(mainBuffer, attachmentBuffers) ==
  /\ ret' = [op |-> "merge", main |-> mainBuffer,
             attachments |-> attachmentBuffers,
             result |-> mergeWithAttachments(mainBuffer, attachmentBuffers)]
  /\ UNCHANGED <<runVars, svcVars, useRedis, redis, now>>

NextMerge ==
  \E mainBuffer \in MainBuffers, attachmentBuffers \in AttachmentLists :
    MergeCall(mainBuffer, attachmentBuffers)

\* ------------------------------------------------------------------------
\* getEvaluationForRegistrationAndPhase called on its own
\* ------------------------------------------------------------------------
\* the entries an evaluation payload is made of: a score of the configured
\* criterion c-1, a score of a criterion no configuration names, a criterion
\* whose value is no number, the opinion, the status and a numeric uid
PayloadEntries ==
  {[key |-> "c-1", numeric |-> TRUE, num |-> 3],
   [key |-> "c-9", numeric |-> TRUE, num |-> 2],
   [key |-> "c-2", numeric |-> FALSE, num |-> 0],
   [key |-> "obs", numeric |-> FALSE, num |-> 0],
   [key |-> "status", numeric |-> TRUE, num |-> 1],
   [key |-> "uid", numeric |-> TRUE, num |-> 7]}

\* the JSON objects of at most MaxKeys keys: no key occurs twice
Payloads ==
  {p \in UNION {[1..n -> PayloadEntries] : n \in 0..MaxKeys} :
     \A a, b \in DOMAIN p : a # b => p[a].key # p[b].key}

\* the evaluation rows: none, one whose evaluation_data is no JSON, or one
\* that holds a JSON object
EvaluationRows ==
  {[row |-> FALSE, payload |-> "none", keys |-> <<>>, result |-> 0],
   [row |-> TRUE, payload |-> "invalid", keys |-> <<>>, result |-> 0]}
  \cup {[row |-> TRUE, payload |-> "object", keys |-> p, result |-> 0] :
          p \in Payloads}

\* await getEvaluationForRegistrationAndPhase(regNumber, phaseId), where the
\* query finds row
EvalCall(row, ph) ==
  /\ ret' = [op |-> "evaluation", row |-> row, phase |-> ph,
             result |-> EvaluationOf(row, ph)]
  /\ UNCHANGED <<runVars, svcVars, useRedis, redis, now>>

NextEval == \E row \in EvaluationRows, ph \in {2, 3} : EvalCall(row, ph)

\* ------------------------------------------------------------------------
\* A second POST /generate while a call of generateFichas is active: the
\* steps of the second call that touch what the module shares (the metrics
\* object and the cache)
\* ------------------------------------------------------------------------
NoOther == [at |-> "idle", parent |-> 0, fetched |-> 0, missed |-> 0,
            report |-> ZeroMetrics]

\* the basic fetches of a call for parent p, in the order of their keys
OtherKinds == <<"children", "phases">>

\* generateFichas(p) is called while the first call is suspended at an
\* await: Object.keys(metrics).forEach(key => metrics[key] = 0)
OtherStart(p) ==
  /\ pc \notin {"idle", "done", "failed"}
  /\ other.at = "idle"
  /\ other' = [other EXCEPT !.at = "active", !.parent = p]
  /\ metrics' = ZeroMetrics
  /\ UNCHANGED <<dbVars, cmVars, calls, finished, race, cache, queries, timers,
                 written, pc, error, pending, fetchVars, renderVars>>

\* a cachedQuery of the second call returns
OtherFetch ==
  LET kind == OtherKinds[other.fetched + 1]
      key == generateKey(kind, <<other.parent>>, <<>>)
      fresh == IF kind = "children" THEN QueryChildren(other.parent)
               ELSE QueryRelevantPhases(other.parent)
  IN /\ other.at = "active"
     /\ other.fetched < MaxOther
     /\ other.fetched < Len(OtherKinds)
     /\ ReturnFromQuery(key, kind, fresh)
     /\ other' = [other EXCEPT
          !.fetched = @ + 1,
          !.missed = IF CacheHit(key) THEN @ ELSE @ + 1]
     /\ UNCHANGED <<dbVars, cmVars, calls, finished, race, pc, error, pending,
                    fetchVars, renderVars>>

\* the second call reports its metrics (output.on('close', ...))
OtherReport ==
  /\ other.at = "active"
  /\ other' = [other EXCEPT !.at = "done", !.report = metrics]
  /\ UNCHANGED <<dbVars, svcVars, cmVars, calls, finished, race, pc, error,
                 pending, fetchVars, renderVars>>

NextShared ==
  \/ Next
  \/ \E p \in OppIds : OtherStart(p)
  \/ OtherFetch
  \/ OtherReport

\* ------------------------------------------------------------------------
\* getOrSet calls for one key that interleave at their awaits
\* ------------------------------------------------------------------------
Racers == 1..MaxRacers

\* what a getOrSet call leaves alone besides the cache manager and the service
raceFrame == <<dbVars, calls, finished, other, pc, error, pending,
               fetchVars, renderVars>>

RaceKey == generateKey("children", <<2>>, <<>>)

\* the results a supplier resolves with: whole arrays of rows that were read
\* by one query (the database may change between two queries)
SupplierResults == {<<1, 1>>, <<2, 2>>}

\* no getOrSet call was made yet
NoRace ==
  [at |-> [c \in Racers |-> "idle"],
   value |-> [c \in Racers |-> <<>>],
   inflight |-> <<>>,
   writes |-> <<>>,
   supplied |-> 0]

\* the local half of set(key, value, ttl): the local store and its timer
LocalStoreBySet(key, value, ttl) ==
  /\ cache' = LocalAfterSet(key, value, FALSE)
  /\ timers' = timers \cup {[key |-> key, due |-> now + ttl]}
  /\ written' = (key :> (now + ttl)) @@ written

\* getOrSet is called: `await this.get(key)` reads the shared store, or the
\* local one when Redis is off, and the caller is suspended
RaceGet(c) ==
  /\ race.at[c] = "idle"
  /\ race' = [race EXCEPT
       !.at[c] = IF CmGetResult(RaceKey, FALSE).found THEN "hit" ELSE "miss",
       !.value[c] = CmGetResult(RaceKey, FALSE).value]
  /\ UNCHANGED <<raceFrame, svcVars, cmVars>>

\* the caller resumes after get: `if (cached !== null) return cached`, else
\* the supplier is called and the caller waits for it
RaceAfterGet(c) ==
  /\ race.at[c] \in {"hit", "miss"}
  /\ race' = IF race.at[c] = "hit"
             THEN [race EXCEPT !.at[c] = "returned"]
             ELSE [race EXCEPT !.at[c] = "supplier", !.supplied = @ + 1]
  /\ UNCHANGED <<raceFrame, svcVars, cmVars>>

\* the supplier resolves with result and set is called. With Redis the setex
\* command is sent and the caller waits for its reply; without it the local
\* store is written and the timer started at once
RaceSet(c, result) ==
  /\ race.at[c] = "supplier"
  /\ IF useRedis
     THEN /\ redis' = RedisAfterSet(RaceKey, result, TtlLong, FALSE)
          /\ race' = [race EXCEPT !.at[c] = "setex", !.value[c] = result,
                                  !.inflight = Append(@, c)]
          /\ UNCHANGED <<cache, timers, written>>
     ELSE /\ LocalStoreBySet(RaceKey, result, TtlLong)
          /\ race' = [race EXCEPT
               !.at[c] = "stored", !.value[c] = result,
               !.writes = Append(@, [by |-> c, value |-> result])]
          /\ UNCHANGED redis
  /\ UNCHANGED <<raceFrame, metrics, queries, useRedis, now, ret>>

\* the reply of setex arrives (replies arrive in the order of the commands):
\* set goes on with the local store and the timer
RaceStore(c) ==
  /\ race.at[c] = "setex"
  /\ Head(race.inflight) = c
  /\ LocalStoreBySet(RaceKey, race.value[c], TtlLong)
  /\ race' = [race EXCEPT
       !.at[c] = "stored", !.inflight = Tail(@),
       !.writes = Append(@, [by |-> c, value |-> race.value[c]])]
  /\ UNCHANGED <<raceFrame, metrics, queries, useRedis, redis, now, ret>>

\* the supplier throws: the error leaves getOrSet
RaceSupplierThrows(c) ==
  /\ race.at[c] = "supplier"
  /\ race' = [race EXCEPT !.at[c] = "raised"]
  /\ UNCHANGED <<raceFrame, svcVars, cmVars>>

\* the caller resumes after set: `return result`
RaceReturn(c) ==
  /\ race.at[c] = "stored"
  /\ race' = [race EXCEPT !.at[c] = "returned"]
  /\ UNCHANGED <<raceFrame, svcVars, cmVars>>

NextRace ==
  \E c \in Racers :
    \/ RaceGet(c)
    \/ RaceAfterGet(c)
    \/ \E result \in SupplierResults : RaceSet(c, result)
    \/ RaceStore(c)
    \/ RaceSupplierThrows(c)
    \/ RaceReturn(c)

\* ------------------------------------------------------------------------
\* Initial states: the service after start-up, in front of a database
\* ------------------------------------------------------------------------
\* a previousPhaseRegistrationId meta row: none, or a value parseInt reads
\* as the number v
NoLink == [row |-> FALSE, numeric |-> FALSE, value |-> 0]

LinkTo(v) == [row |-> TRUE, numeric |-> TRUE, value |-> v]

\* a previousPhaseRegistrationId meta row whose value parseInt reads as NaN
NonNumericLink == [row |-> TRUE, numeric |-> FALSE, value |-> 0]

\* the meta row of registration r: none, or the id of a registration made
\* before r
LinkValues(r) == {NoLink} \cup {LinkTo(v) : v \in 1..(r - 1)}

NoCall ==
  [op |-> "none", key |-> <<>>, found |-> FALSE, value |-> <<>>,
   raised |-> FALSE, shared |-> FALSE, threw |-> FALSE, within |-> FALSE,
   supplierCalls |-> 0]

\* the CacheManager after construction and the metrics at start-up
CacheIdle ==
  /\ cache = <<>>
  /\ metrics = ZeroMetrics
  /\ queries = [k \in FetchKinds |-> 0]
  /\ timers = {}
  /\ written = <<>>
  /\ redis = <<>>
  /\ now = 0
  /\ ret = NoCall

\* no call of generateFichas was made yet
RunIdle ==
  /\ pc = "idle"
  /\ error = ""
  /\ pending = {}
  /\ children = <<>>
  /\ phases = <<>>
  /\ registrationsByPhase = <<>>
  /\ chosenPhaseId = 0
  /\ registrations = <<>>
  /\ parentRegIdMap = <<>>
  /\ allMetaData = <<>>
  /\ parentMetaData = <<>>
  /\ i = 0
  /\ docs = <<>>
  /\ batchResults = <<>>
  /\ renderCalls = {}
  /\ pdfFilenames = <<>>
  /\ outputFiles = {}
  /\ zip = [created |-> FALSE, entries |-> <<>>]
  /\ calls = <<>>
  /\ finished = <<>>
  /\ race = NoRace
  /\ other = NoOther

\* new CacheManager(process.env.USE_REDIS === 'true') with USE_REDIS unset
ServiceIdle ==
  /\ CacheIdle
  /\ useRedis = FALSE
  /\ RunIdle

\* the parent opportunity exists and has no parent; every other opportunity
\* is a child of it or not; every registration belongs to the parent or to
\* one of its children; registration ids grow with the phase id, and agent
\* ids are numbered in the order of their first registration; the template
\* accepts every data object
Init ==
  /\ parentId \in ParentIds
  /\ opportunity \in {o \in [OppIds -> {0, parentId}] : o[parentId] = 0}
  /\ \E n \in 0..MaxReg :
       /\ registration \in
            {r \in [1..n -> [opportunity_id : OppIds, agent_id : AgentIds]] :
               /\ \A k \in 1..n :
                    \/ r[k].opportunity_id = parentId
                    \/ opportunity[r[k].opportunity_id] = parentId
               /\ \A k \in 1..(n - 1) :
                    r[k].opportunity_id <= r[k + 1].opportunity_id
               /\ \A k \in 1..n : \A a \in 1..(r[k].agent_id - 1) :
                    \E h \in 1..(k - 1) : r[h].agent_id = a}
       /\ prevLink \in {l \in [1..n -> UNION {LinkValues(r) : r \in 1..n}] :
                         \A r \in 1..n : l[r] \in LinkValues(r)}
  /\ badTemplate = {}
  /\ ServiceIdle

Spec == Init /\ [][Next]_vars

\* A linked pool: the parent 2 has the single child 4; registration 1 is made
\* in the parent phase, the later ones in the child phase, each with or
\* without an agent and with or without a link to registration 1
InitLinked ==
  /\ parentId = 2
  /\ opportunity = [o \in OppIds |-> IF o = 4 THEN 2 ELSE 0]
  /\ \E n \in 1..(MaxReg + 1) :
       /\ registration \in
            {r \in [1..n -> [opportunity_id : {2, 4}, agent_id : {0, 1}]] :
               /\ r[1] = [opportunity_id |-> 2, agent_id |-> 1]
               /\ \A k \in 2..n : r[k].opportunity_id = 4}
       /\ prevLink \in {l \in [1..n -> {NoLink, LinkTo(1)}] : l[1] = NoLink}
  /\ badTemplate = {}
  /\ ServiceIdle

SpecLinked == InitLinked /\ [][Next]_vars

\* A pool with gaps: the parent 2 has the single child 4; registration 1 is
\* made in the parent phase, registrations 2 and 3 in the child phase, each
\* with or without an agent and with no link, a link that is no number or a
\* link to registration 1; registration 3 has no field values
InitSparse ==
  /\ parentId = 2
  /\ opportunity = [o \in OppIds |-> IF o = 4 THEN 2 ELSE 0]
  /\ registration \in
       {r \in [1..3 -> [opportunity_id : {2, 4}, agent_id : {0, 1}]] :
          /\ r[1] = [opportunity_id |-> 2, agent_id |-> 1]
          /\ \A k \in 2..3 : r[k].opportunity_id = 4}
  /\ prevLink \in {l \in [1..3 -> {NoLink, NonNumericLink, LinkTo(1)}] :
                     l[1] = NoLink}
  /\ badTemplate = {}
  /\ ServiceIdle

SpecSparse == InitSparse /\ [][Next]_vars

\* A pool assembled by one generateFichas call after the other: the parent 2
\* has the single child 4; registration 1 is made in the parent phase,
\* registration 2 (linked to 1) and registration 3 (with or without a link)
\* in the child phase
InitTwice ==
  /\ parentId = 2
  /\ opportunity = [o \in OppIds |-> IF o = 4 THEN 2 ELSE 0]
  /\ registration = <<[opportunity_id |-> 2, agent_id |-> 1],
                      [opportunity_id |-> 4, agent_id |-> 1],
                      [opportunity_id |-> 4, agent_id |-> 0]>>
  /\ prevLink \in {<<NoLink, LinkTo(1), l>> : l \in {NoLink, LinkTo(1)}}
  /\ badTemplate = {}
  /\ ServiceIdle

SpecTwice == InitTwice /\ [][NextTwice]_vars

\* The same pool, assembled while a second POST /generate is served
SpecShared == InitTwice /\ [][NextShared]_vars

\* A pool larger than one batch: the parent 2 has the single child 4, whose
\* registrations (one per agent, the second linked to the first) are the pool;
\* the template may throw for the first registration
InitBatch ==
  /\ parentId = 2
  /\ opportunity = [o \in OppIds |-> IF o = 4 THEN 2 ELSE 0]
  /\ \E n \in (batchSize + 1)..(batchSize + MaxExtra) :
       /\ registration = [r \in 1..n |-> [opportunity_id |-> 4, agent_id |-> r]]
       /\ prevLink = [r \in 1..n |-> IF r = 2 THEN LinkTo(1) ELSE NoLink]
  /\ badTemplate \in SUBSET {1}
  /\ ServiceIdle

SpecBatch == InitBatch /\ [][Next]_vars

\* The CacheManager on its own, with the shared tier switched on or off:
\* direct calls in any order
InitCache ==
  /\ parentId = 2
  /\ opportunity = [o \in OppIds |-> 0]
  /\ registration = <<>>
  /\ prevLink = <<>>
  /\ badTemplate = {}
  /\ CacheIdle
  /\ useRedis \in BOOLEAN
  /\ RunIdle

SpecCache == InitCache /\ [][NextCache]_vars

\* The CacheManager on its own, without the shared tier: direct calls on
\* one key in any order, while time passes
InitTtl ==
  /\ InitCache
  /\ useRedis = FALSE

SpecTtl == InitTtl /\ [][NextTtl]_vars

\* getOrSet calls for one key that interleave, with and without Redis
SpecRace == InitCache /\ [][NextRace]_vars

\* two phases and two registrations with one- and two-digit ids: registration
\* 2 in the parent phase 2, registration 10 in the child phase 10, linked to 2
InitKeys ==
  /\ parentId = 2
  /\ opportunity = (2 :> 0) @@ (10 :> 2)
  /\ registration = (2 :> [opportunity_id |-> 2, agent_id |-> 1])
                    @@ (10 :> [opportunity_id |-> 10, agent_id |-> 1])
  /\ prevLink \in {(2 :> NoLink) @@ (10 :> l) : l \in {NoLink, LinkTo(2)}}
  /\ badTemplate = {}
  /\ ServiceIdle

SpecKeys == InitKeys /\ [][NextKeys]_vars

\* the per-row generator's evaluation of the rows a database can hold
SpecEval == InitKeys /\ [][NextEval]_vars

\* the merge of the buffers a registration's directories can hold
SpecMerge == InitKeys /\ [][NextMerge]_vars


\* ------------------------------------------------------------------------
\* Properties of fetchAllRelevantPhases, the pool selection and the assembly
\* ------------------------------------------------------------------------
\* the run is past the two basic fetches
PastBasic == pc \in {"regs", "preload", "parentMeta", "batch", "zip", "done"}

\* the run is past the pool selection
PastSelection == pc \in {"preload", "parentMeta", "batch", "zip", "done"}

\* the registrations of the database made in phase ph
RegsOfPhase(ph) == {r \in RegIds : registration[r].opportunity_id = ph}

\* the children of the parent opportunity other than the one with id p + 1
RealChildren ==
  {o \in OppIds : opportunity[o] = parentId /\ o # parentId + 1}

\* C1: once the phases are resolved, they are exactly the parent opportunity
\* and its direct children without the opportunity whose id is parentId + 1,
\* and they are listed in strictly ascending order of id.
C1_PhaseResolution ==
  PastBasic =>
    /\ Range(phases) = ({parentId} \cup {o \in OppIds : opportunity[o] = parentId})
                         \ {parentId + 1}
    /\ \A k \in 1..(Len(phases) - 1) : phases[k] < phases[k + 1]

\* C1 witness: the opportunity parentId + 1 is a child of the parent, another
\* child exists, and the resolved phases leave parentId + 1 out
C1_Witness ==
  /\ pc = "regs"
  /\ opportunity[parentId + 1] = parentId
  /\ opportunity[4] = parentId
  /\ phases = <<parentId, 4>>

\* C2: in every assembled document, the governing registration id of a phase
\* is the parent link of the applicant when the phase is the root phase and
\* the applicant has a link; otherwise it is the id of a registration of that
\* phase with the applicant's agent id when there is one; otherwise it is the
\* applicant's own registration id.
C2_GoverningRegistration ==
  \A j \in DOMAIN docs :
    LET reg == registrations[j]
        r == reg.registration_id
    IN /\ Len(docs[j].phases) = Len(phases)
       /\ \A k \in DOMAIN docs[j].phases :
            LET ph == docs[j].phases[k].id
                e == docs[j].phases[k].evalRegId
                sameAgent == {q \in RegsOfPhase(ph) :
                                registration[q].agent_id = registration[r].agent_id}
            IN IF ph = parentId /\ prevLink[r].row /\ prevLink[r].numeric
               THEN e = prevLink[r].value
               ELSE IF sameAgent # {} THEN e \in sameAgent
               ELSE e = r

\* C2 witness: an applicant with a parent link whose agent has, in the root
\* phase, a registration other than the linked one; the link governs
C2_Witness ==
  \E j \in DOMAIN docs :
    LET r == registrations[j].registration_id
    IN /\ prevLink[r].row
       /\ \E q \in RegsOfPhase(parentId) :
            /\ registration[q].agent_id = registration[r].agent_id
            /\ q # prevLink[r].value
       /\ \E k \in DOMAIN docs[j].phases :
            /\ docs[j].phases[k].id = parentId
            /\ docs[j].phases[k].evalRegId = prevLink[r].value

\* C3 (as stated): for a pool registration r of a child phase c with a parent
\* link to a registration p of the root phase, the root sub-record of r's
\* document lists the formatted field values of p for the root phase in
\* display order, and the sub-record of phase c lists the formatted field
\* values of r itself for phase c.
C3_LinkedApplicantRows ==
  \A j \in DOMAIN docs :
    LET r == registrations[j].registration_id
        p == prevLink[r].value
    IN (/\ chosenPhaseId # parentId
        /\ prevLink[r].row /\ prevLink[r].numeric
        /\ p \in RegsOfPhase(parentId))
       => \A k \in DOMAIN docs[j].phases :
            LET sub == docs[j].phases[k]
            IN /\ sub.id = parentId
                  => sub.rows = FormatRows(MetaRows(p, parentId))
               /\ sub.id = chosenPhaseId
                  => sub.rows = FormatRows(MetaRows(r, chosenPhaseId))

\* C4: past the pool selection, the pool is the registrations of the lowest-id
\* child (other than parentId + 1) that has a registration, or of the parent
\* phase when no such child has one, and the pool is not empty.
C4_PoolChoice ==
  PastSelection =>
    LET withRegs == {o \in RealChildren : RegsOfPhase(o) # {}}
    IN /\ chosenPhaseId = IF withRegs # {} THEN Min(withRegs) ELSE parentId
       /\ {registrations[k].registration_id : k \in DOMAIN registrations}
             = RegsOfPhase(chosenPhaseId)
       /\ Len(registrations) = Cardinality(RegsOfPhase(chosenPhaseId))
       /\ registrations # <<>>

\* C4 witness: the child parentId + 1 has a registration, and the pool is the
\* later child 4
C4_Witness ==
  /\ pc = "preload"
  /\ opportunity[parentId + 1] = parentId
  /\ RegsOfPhase(parentId + 1) # {}
  /\ chosenPhaseId = 4
  /\ registrations # <<>>

\* C5: when neither a child (other than parentId + 1) nor the parent phase
\* has a registration, the run never gets past the pool selection, a run that
\* fetched the registrations has failed, and no render is started, no PDF
\* written and no ZIP created.
C5_EmptyPoolFatal ==
  (\A o \in RealChildren \cup {parentId} : RegsOfPhase(o) = {}) =>
    /\ ~PastSelection
    /\ pc = "failed" => error \in {"children", "phases", "registrations",
                                   "noRegistrations"}
    /\ renderCalls = {}
    /\ outputFiles = {}
    /\ ~zip.created
    /\ docs = <<>>

\* C5 witness: the only registrations are of the child parentId + 1, and the
\* run failed for want of registrations
C5_Witness ==
  /\ pc = "failed"
  /\ error = "noRegistrations"
  /\ RegsOfPhase(parentId + 1) # {}
  /\ queries["registrations"] = 1

\* C6 (as stated): every assembled document has a non-empty list of phase
\* sub-records, one per relevant phase in the order of the resolved phases,
\* and the sub-record at position 0 is the root phase.
C6_PhaseOrder ==
  \A j \in DOMAIN docs :
    /\ docs[j].phases # <<>>
    /\ [k \in DOMAIN docs[j].phases |-> docs[j].phases[k].id] = phases
    /\ docs[j].phases[1].id = parentId

\* C7 (as stated): a completed run that started from an empty cache issued
\* exactly one database query for the registrations, one for the parent
\* links and one for the field values.
C7_OneQueryPerKind ==
  pc = "done" =>
    /\ queries["registrations"] = 1
    /\ queries["parentLinks"] = 1
    /\ queries["meta"] = 1

\* C8: a run that failed in a fetch has started no render, written no PDF and
\* created no ZIP; once a render was started no fetch is pending any more.
C8_FetchFailureAtomic ==
  /\ (pc = "failed" /\ error # "noRegistrations") =>
       /\ error \in {"children", "phases", "registrations", "parentLinks",
                     "meta", "parentMeta"}
       /\ renderCalls = {}
       /\ docs = <<>>
       /\ outputFiles = {}
       /\ ~zip.created
  /\ (renderCalls # {} \/ docs # <<>> \/ outputFiles # {} \/ zip.created) =>
       /\ pc \in {"batch", "zip", "done"}
       /\ pending = {}

\* C8 witness: the last fetch, of the field values of the linked parent
\* registrations, threw
C8_Witness ==
  /\ pc = "failed"
  /\ error = "parentMeta"
  /\ registrations # <<>>
  /\ DOMAIN parentRegIdMap # {}

\* C9: a failure of the template, the render or the write of one applicant
\* does not fail the run: the other applicants are rendered, and the ZIP of a
\* completed run holds exactly the files of the applicants that succeeded, in
\* pool order.
C9_PerApplicantDegradation ==
  /\ pc \in {"batch", "zip", "done"} => error = ""
  /\ DOMAIN batchResults # {} => pc \in {"batch", "zip", "done"}
  /\ pc \in {"zip", "done"} =>
       LET all == [k \in 1..Len(registrations) |-> k]
           ok == SelectSeq(all, LAMBDA j : batchResults[j] = "file")
       IN /\ DOMAIN batchResults = DOMAIN registrations
          /\ renderCalls = {j \in DOMAIN registrations :
                              registrations[j].registration_id \notin badTemplate}
          /\ zip.created
          /\ zip.entries = [k \in DOMAIN ok |-> Filename(registrations[ok[k]])]
          /\ outputFiles = {Filename(registrations[j]) :
                              j \in {x \in DOMAIN registrations :
                                       batchResults[x] = "file"}}

\* C9 witness: a completed run in which the template threw for one applicant,
\* the render or the write failed for another, and a third one succeeded
C9_Witness ==
  /\ pc = "done"
  /\ \E j \in DOMAIN registrations :
       j \notin renderCalls /\ batchResults[j] = "null"
  /\ \E j \in renderCalls : batchResults[j] = "null"
  /\ \E j \in renderCalls : batchResults[j] = "file"

\* C10: at most batchSize renders are in flight, and no applicant of a batch
\* starts rendering before every applicant of the earlier batches has
\* finished.
C10_BoundedConcurrency ==
  /\ Cardinality({j \in DOMAIN batchResults : batchResults[j] = "rendering"})
       <= batchSize
  /\ \A j \in DOMAIN batchResults : \A k \in DOMAIN registrations :
       ((k - 1) \div batchSize < (j - 1) \div batchSize) =>
          /\ k \in DOMAIN batchResults
          /\ batchResults[k] # "rendering"

\* C10 witness: an applicant of the second batch is rendering
C10_Witness ==
  \E j \in DOMAIN batchResults :
    /\ j > batchSize
    /\ batchResults[j] = "rendering"

\* ------------------------------------------------------------------------
\* Properties of the CacheManager
\* ------------------------------------------------------------------------
\* C11 (as stated): with the shared tier enabled, get(key) returns the value
\* of the shared store when the shared store holds the key and answers;
\* when the shared store misses or throws it returns the value the
\* in-process store holds for the key, and null only when neither tier holds
\* the key.
C11_ReadFallsBack ==
  (ret.op = "get" /\ ret.shared) =>
    LET key == ret.key
        sharedHit == /\ ~ret.threw
                     /\ key \in DOMAIN redis
                     /\ now < redis[key].due
    IN IF sharedHit
       THEN ret.found /\ ret.value = redis[key].str.json
       ELSE IF key \in DOMAIN cache
            THEN ret.found /\ ret.value = cache[key]
            ELSE ~ret.found

\* C12: set(key, value, ttl) completes without raising and leaves the value in
\* the in-process store, also when the write to the shared store throws.
C12_WriteAlwaysLocal ==
  ret.op = "set" =>
    /\ ~ret.raised
    /\ ret.key \in DOMAIN cache
    /\ cache[ret.key] = ret.value

\* C12 witness: the write to the shared store threw, the shared store does
\* not hold the key, and the in-process store holds the value
C12_Witness ==
  /\ ret.op = "set"
  /\ ret.shared
  /\ ret.threw
  /\ ret.key \notin DOMAIN redis
  /\ ret.key \in DOMAIN cache
  /\ cache[ret.key] = ret.value

\* C13 (as stated): whenever no timer is due, the in-process store holds a
\* key exactly when the ttl of the latest set of that key has not run out
\* and no del or clear has removed the entry since.
C13_TtlExpiry ==
  (\A t \in timers : now < t.due) =>
    \A key \in CacheKeys : (key \in DOMAIN cache) <=> Within(key)

\* C14 (as stated): getOrSet returns a cached value without invoking the
\* supplier; otherwise it invokes the supplier once and returns its result;
\* a request made within the ttl of an earlier store of the same key does not
\* invoke the supplier.
C14_GetOrSet ==
  ret.op = "getOrSet" =>
    /\ ret.supplierCalls <= 1
    /\ ~ret.raised => ret.found
    /\ ret.within => ret.supplierCalls = 0

\* a and b hold the same ids, each as often, in some order
IsPermutation(a, b) ==
  /\ Len(a) = Len(b)
  /\ \A x \in Range(a) \cup Range(b) :
       Cardinality({k \in DOMAIN a : a[k] = x})
         = Cardinality({k \in DOMAIN b : b[k] = x})

\* C15: cache keys ignore the order of the ids. Whenever two calls of
\* fetchRegistrationsForPhases, fetchParentRegistrationIds or
\* fetchOrderedMetaForRegistrations were made one after the other with id
\* arrays that are permutations of each other, both built the same cache key,
\* and unless the first call failed the second one issued no query and
\* returned what the first returned.
C15_KeysIgnoreOrder ==
  \A m, n \in DOMAIN calls :
    (/\ m < n
     /\ calls[m].kind = calls[n].kind
     /\ IsPermutation(calls[m].a, calls[n].a)
     /\ IsPermutation(calls[m].b, calls[n].b))
    => /\ calls[m].keyed = calls[n].keyed
       /\ calls[m].key = calls[n].key
       /\ ~calls[m].failed =>
            /\ ~calls[n].queried
            /\ ~calls[n].failed
            /\ calls[n].result = calls[m].result

C15_Witness ==
  /\ Len(calls) >= 2
  /\ calls[1].kind = "meta" /\ calls[2].kind = "meta"
  /\ calls[1].a = <<2, 10>> /\ calls[2].a = <<10, 2>>
  /\ calls[1].b = <<10, 2>> /\ calls[2].b = <<2, 10>>
  /\ calls[1].queried /\ ~calls[1].failed
  /\ ~calls[2].queried
  /\ calls[2].result = calls[1].result
  /\ calls[2].result # <<>>

\* the attachment files of the governing registration ids of the phase
\* sub-records phs, in phase order
RECURSIVE PhaseAttachments(_)
PhaseAttachments(phs) ==
  IF phs = <<>> THEN <<>>
  ELSE AttachmentFiles(Head(phs).evalRegId) \o PhaseAttachments(Tail(phs))

\* C16: attachments are merged. For every applicant whose PDF was saved, the
\* saved file is the rendered main document followed by the PDF files of the
\* directories of the applicant's governing registration ids, in phase order,
\* each file once.
C16_AttachmentsMerged ==
  \A k \in DOMAIN batchResults :
    batchResults[k] = "file" =>
      SavedPdf(docs[k]) =
        mergeWithAttachments(MainPdf(docs[k]),
                             Dedup(PhaseAttachments(docs[k].phases)))

\* C17: the evaluation total is the stored one. In every phase sub-record of
\* every assembled document whose governing registration has an evaluation
\* row in that phase, the total reported is the persisted aggregate of the
\* row, in the document as assembled by generateFichas and in the evaluation
\* that getEvaluationForRegistrationAndPhase returns for the sub-record.
C17_TotalIsStored ==
  \A k \in DOMAIN docs : \A j \in DOMAIN docs[k].phases :
    LET sub == docs[k].phases[j]
        row == EvaluationRow(sub.evalRegId, sub.id)
    IN row.row =>
         /\ sub.evaluation.total = row.result
         /\ getEvaluationForRegistrationAndPhase(sub.evalRegId, sub.id).total
              = row.result

\* C18: evaluation exclusivity. In every phase sub-record of every assembled
\* document, evaluation.hasTechnical and evaluation.hasSimplified are never
\* both true, whatever the evaluation payload of the governing registration.
C18_EvaluationExclusive ==
  \A k \in DOMAIN docs : \A j \in DOMAIN docs[k].phases :
    LET evaluation == docs[k].phases[j].evaluation
    IN ~(evaluation.hasTechnical /\ evaluation.hasSimplified)

\* a sub-record whose governing registration has an evaluation row with
\* numeric criterion scores
C18_Witness ==
  \E k \in DOMAIN docs : \E j \in DOMAIN docs[k].phases :
    LET sub == docs[k].phases[j]
    IN /\ EvaluationRow(sub.evalRegId, sub.id).payload = "object"
       /\ getEvaluationForRegistrationAndPhase(sub.evalRegId, sub.id).total > 0
       /\ ~sub.evaluation.hasTechnical
       /\ ~sub.evaluation.hasSimplified

\* C19: tolerated absences never raise. A run that has reached the batch loop
\* has not failed and holds a document for every pool position of the batches
\* entered; in these documents a governing registration without field values
\* in a phase gives empty rows, a missing evaluation row gives the empty
\* evaluation with total 0, a registration without a parent link or with a
\* link that is no number is absent from the link map, and a status code
\* outside the mapping gives the empty status text.
C19_AbsencesTolerated ==
  pc \in {"batch", "zip", "done"} =>
    /\ error = ""
    /\ \A j \in DOMAIN registrations : j <= i + batchSize => j \in DOMAIN docs
    /\ \A r \in RegIds :
         ~(prevLink[r].row /\ prevLink[r].numeric)
           => r \notin DOMAIN parentRegIdMap
    /\ \A j \in DOMAIN docs : \A k \in DOMAIN docs[j].phases :
         LET r == registrations[j].registration_id
             sub == docs[j].phases[k]
             linked == sub.id = parentId /\ r \in DOMAIN parentRegIdMap
         IN /\ ((sub.id # parentId \/ linked)
                 /\ MetaRows(sub.evalRegId, sub.id) = <<>>)
                => sub.rows = <<>>
            /\ ~EvaluationRow(sub.evalRegId, sub.id).row
                => /\ sub.evaluation.sections = <<>>
                   /\ sub.evaluation.total = 0
                   /\ getEvaluationForRegistrationAndPhase(sub.evalRegId,
                                                           sub.id)
                        = [criteria |-> <<>>, parecer |-> "", total |-> 0]
            /\ RegStatus(r) \notin DOMAIN STATUS_LABELS
                => sub.regStatusText = ""

\* a finished run with a pool registration whose link is no number and whose
\* status is unmapped, one without field values in the pool phase, and a
\* sub-record without an evaluation row
C19_Witness ==
  /\ pc = "done"
  /\ \E j \in DOMAIN docs :
       LET r == registrations[j].registration_id
       IN /\ prevLink[r] = NonNumericLink
          /\ r \notin DOMAIN parentRegIdMap
          /\ RegStatus(r) \notin DOMAIN STATUS_LABELS
          /\ \A k \in DOMAIN docs[j].phases :
               docs[j].phases[k].regStatusText = ""
  /\ \E j \in DOMAIN docs : \E k \in DOMAIN docs[j].phases :
       LET sub == docs[j].phases[k]
       IN /\ sub.id # parentId
          /\ MetaRows(sub.evalRegId, sub.id) = <<>>
          /\ sub.rows = <<>>
  /\ \E j \in DOMAIN docs : \E k \in DOMAIN docs[j].phases :
       LET sub == docs[j].phases[k]
       IN /\ ~EvaluationRow(sub.evalRegId, sub.id).row
          /\ sub.evaluation.total = 0

\* C20: idempotence. When a generateFichas call has assembled its documents
\* after an earlier call did, over the same database and with the cache as
\* the earlier calls left it or cleared in between, its documents are those
\* of the earlier call: the same applicants, phase order, governing ids and
\* rows.
C20_Idempotent ==
  pc = "done" =>
    \A n \in DOMAIN finished :
      finished[n].resolved => docs = finished[n].docs

\* a second call that was served from the cache alone
C20_Witness ==
  /\ pc = "done"
  /\ Len(finished) = 1
  /\ finished[1].resolved
  /\ docs = finished[1].docs
  /\ metrics.totalQueries = 0
  /\ \E j \in DOMAIN docs : \E k \in DOMAIN docs[j].phases :
       docs[j].phases[k].rows # <<>>

\* C21: an applicant without a parent link. In the document of a pool
\* registration that is absent from the link map, the rows of the root-phase
\* sub-record are the formatted root-phase field values of the governing
\* registration of that sub-record (the agent-matched registration of the
\* root phase, or the applicant's own registration), also when the pool is
\* the parent phase itself.
C21_UnlinkedRootRows ==
  \A j \in DOMAIN docs : \A k \in DOMAIN docs[j].phases :
    LET r == registrations[j].registration_id
        sub == docs[j].phases[k]
    IN (sub.id = parentId /\ r \notin DOMAIN parentRegIdMap)
       => sub.rows = FormatRows(MetaRows(sub.evalRegId, parentId))

\* the pool registration at position j has no registration of the same agent
\* in the non-root phase ph
NoAgentMatch(j, ph) ==
  /\ ph # parentId
  /\ \A q \in RegsOfPhase(ph) :
       registration[q].agent_id # registrations[j].agent_id

\* C22 (as stated): when a pool applicant has no agent-matched registration
\* in a non-root phase, the sub-record of that phase has empty rows, an empty
\* evaluation and no attachments.
C22_UnresolvedPhaseEmpty ==
  \A j \in DOMAIN docs : \A k \in DOMAIN docs[j].phases :
    LET sub == docs[j].phases[k]
    IN NoAgentMatch(j, sub.id) =>
         /\ sub.rows = <<>>
         /\ sub.evaluation = EmptyEvaluation
         /\ sub.files = <<>>

\* C22 (amended): when a pool applicant has no agent-matched registration in
\* a non-root phase, the sub-record of that phase is governed by the
\* applicant's own registration: its rows are the formatted values that
\* registration holds for the fields of the phase (empty when it holds none),
\* its evaluation is empty and it has no attachments; the applicant's
\* document is assembled all the same.
C22_UnresolvedPhaseOwnRows ==
  \A j \in DOMAIN docs : \A k \in DOMAIN docs[j].phases :
    LET r == registrations[j].registration_id
        sub == docs[j].phases[k]
    IN NoAgentMatch(j, sub.id) =>
         /\ sub.evalRegId = r
         /\ sub.rows = FormatRows(MetaRows(r, sub.id))
         /\ sub.evaluation = EmptyEvaluation
         /\ sub.files = <<>>

\* a pool applicant of the parent phase whose own registration holds values
\* for the fields of a child phase in which the agent has no registration
C22_Witness ==
  \E j \in DOMAIN docs : \E k \in DOMAIN docs[j].phases :
    LET sub == docs[j].phases[k]
    IN /\ NoAgentMatch(j, sub.id)
       /\ sub.evalRegId = registrations[j].registration_id
       /\ sub.rows # <<>>
       /\ batchResults[j] = "file"

\* the entries of a payload that are neither the opinion nor the status
OtherEntries(keys) ==
  SelectSeq(keys, LAMBDA e : e.key \notin {"obs", "status"})

\* the entries of a payload whose key starts with 'c-' and whose value is a
\* number
NumericCriteria(keys) ==
  SelectSeq(keys, LAMBDA e : e.key \in CriterionKeys /\ e.numeric)

\* C23 (as stated): every key of the raw evaluation payload other than obs
\* and status yields one criterion row, labelled with the configured title
\* or, when no configured criterion has that id, with the raw key; the obs
\* key becomes the parecer text.
C23_NoCriterionDropped ==
  (ret.op = "evaluation" /\ ret.row.payload = "object") =>
    LET expected == OtherEntries(ret.row.keys)
        criteria == ret.result.criteria
    IN /\ Len(criteria) = Len(expected)
       /\ \A k \in DOMAIN criteria :
            criteria[k].label = CriterionLabel(expected[k].key, ret.phase)
       /\ (ret.result.parecer # "")
            <=> \E k \in DOMAIN ret.row.keys : ret.row.keys[k].key = "obs"

\* C23 (amended): every key of the raw evaluation payload that starts with
\* 'c-' and holds a numeric value yields one criterion row, in the order of
\* the keys, with that value as its score; a key that matches no configured
\* criterion id is emitted with the raw key as its label; every other key
\* besides obs is ignored, and the obs key becomes the parecer text.
C23_NumericCriteriaKept ==
  (ret.op = "evaluation" /\ ret.row.payload = "object") =>
    LET expected == NumericCriteria(ret.row.keys)
        criteria == ret.result.criteria
        titles == getCriteriaListForPhase(ret.phase)
    IN /\ Len(criteria) = Len(expected)
       /\ \A k \in DOMAIN criteria :
            /\ criteria[k].score = expected[k].num
            /\ (\A c \in Range(titles) : c.crit_id # expected[k].key)
                 => criteria[k].label = expected[k].key
            /\ \A c \in Range(titles) :
                 c.crit_id = expected[k].key
                   => criteria[k].label = c.crit_title
       /\ (ret.result.parecer # "")
            <=> \E k \in DOMAIN ret.row.keys : ret.row.keys[k].key = "obs"

\* a payload with a configured score, an unconfigured score and the opinion
C23_Witness ==
  /\ ret.op = "evaluation"
  /\ ret.phase = 2
  /\ ret.row.payload = "object"
  /\ {ret.row.keys[k].key : k \in DOMAIN ret.row.keys} = {"c-9", "c-1", "obs"}
  /\ ret.row.keys[1].key = "c-9"
  /\ Len(ret.result.criteria) = 2
  /\ ret.result.criteria[1].label = "c-9"
  /\ ret.result.criteria[2].label = "title-1"
  /\ ret.result.parecer = "obs"

\* C24: when getOrSet calls for the same key interleave at their awaits, every
\* caller that returns receives a whole supplier result, and once all of them
\* have finished the cache holds, for that key, the whole value written by
\* the last writer: no mixed and no missing entry. The supplier ran once per
\* caller that missed.
C24_RacesBenign ==
  (\A c \in Racers : race.at[c] \in {"returned", "raised"}) =>
    /\ \A c \in Racers :
         race.at[c] = "returned" => race.value[c] \in SupplierResults
    /\ race.writes # <<>> =>
         /\ CmGetResult(RaceKey, FALSE) =
              Found(race.writes[Len(race.writes)].value)
         /\ LocalGet(RaceKey) = Found(race.writes[Len(race.writes)].value)
    /\ race.writes = <<>> => ~CmGetResult(RaceKey, FALSE).found
    /\ race.supplied <= MaxRacers

\* two callers missed, both suppliers ran and resolved with different
\* results, and both callers have returned
C24_Witness ==
  /\ \A c \in Racers : race.at[c] = "returned"
  /\ race.supplied >= 2
  /\ Len(race.writes) >= 2
  /\ race.writes[1].value # race.writes[Len(race.writes)].value
  /\ race.writes[1].by # race.writes[Len(race.writes)].by

\* the client.query calls the first generateFichas call made itself
OwnQueries ==
  LET RECURSIVE Sum(_)
      Sum(K) == IF K = {} THEN 0
                ELSE LET k == CHOOSE x \in K : TRUE
                     IN queries[k] + Sum(K \ {k})
  IN Sum(FetchKinds) - other.missed

\* C25: with two generateFichas calls active at once, the metrics a call
\* reports count only the operations of that call: its totalQueries and its
\* cacheMisses are the number of queries the call itself ran.
C25_MetricsOwn ==
  /\ pc = "done" =>
       /\ metrics.totalQueries = OwnQueries
       /\ metrics.cacheMisses = OwnQueries
  /\ other.at = "done" =>
       /\ other.report.totalQueries = other.missed
       /\ other.report.cacheMisses = other.missed

\* the number of pages the parseable attachments before position k add
RECURSIVE PagesBefore(_, _)
PagesBefore(atts, k) ==
  IF k <= 1 THEN 0
  ELSE PagesBefore(atts, k - 1)
       + (IF atts[k - 1].pdf THEN atts[k - 1].pages ELSE 0)

\* C26: the merge tolerates bad attachments. The result of
\* mergeWithAttachments starts with the pages of the main document; every
\* page of every parseable attachment follows at the position that the input
\* order gives it; an unparseable attachment adds no page, so the result has
\* the main pages and the pages of the parseable attachments and no other.
C26_MergeTolerant ==
  ret.op = "merge" =>
    LET m == Len(ret.main)
        atts == ret.attachments
        out == ret.result
    IN /\ Len(out) = m + PagesBefore(atts, Len(atts) + 1)
       /\ SubSeq(out, 1, m) = ret.main
       /\ \A k \in DOMAIN atts :
            atts[k].pdf =>
              \A n \in 1..atts[k].pages :
                out[m + PagesBefore(atts, k) + n] =
                  [dir |-> atts[k].dir, file |-> atts[k].file, page |-> n]

\* a merge whose input has an unparseable attachment between two parseable
\* ones
C26_Witness ==
  /\ ret.op = "merge"
  /\ Len(ret.attachments) = 3
  /\ ret.attachments[1].pdf
  /\ ~ret.attachments[2].pdf
  /\ ret.attachments[3].pdf
  /\ Len(ret.result) > Len(ret.main) + ret.attachments[1].pages

\* C27: own data in the pool phase. In every assembled document, the
\* sub-record of the pool phase is governed by the applicant's own
\* registration id, and its rows (for a pool phase that is not the root) are
\* the values of that registration, so that two pool registrations never
\* receive each other's rows.
C27_OwnDataInPool ==
  \A j \in DOMAIN docs : \A k \in DOMAIN docs[j].phases :
    LET r == registrations[j].registration_id
        sub == docs[j].phases[k]
    IN sub.id = chosenPhaseId =>
         /\ sub.evalRegId = r
         /\ sub.id # parentId => sub.rows = FormatRows(MetaRows(r, sub.id))

\* C28: every pool applicant exactly once. The batches partition the pool:
\* every step that assembles documents takes pool positions that no earlier
\* batch took, assembles all of them and hands to the renderer only positions
\* never rendered before; when the ZIP is created every pool position was
\* assembled, and the ZIP names are those of the applicants whose PDF was
\* written, each once and in pool order, whatever the order in which the
\* renders completed.
C28_ExactlyOnce ==
  /\ [][docs' # docs =>
          LET batch == {j \in DOMAIN registrations :
                          i' < j /\ j <= i' + batchSize}
          IN /\ batch # {}
             /\ batch \cap DOMAIN docs = {}
             /\ DOMAIN docs' = DOMAIN docs \cup batch
             /\ DOMAIN docs' = 1..Cardinality(DOMAIN docs')
             /\ renderCalls \cap batch = {}
             /\ renderCalls' \ renderCalls \subseteq batch]_vars
  /\ [](pc \in {"zip", "done"} =>
          LET ok == {j \in DOMAIN registrations : batchResults[j] = "file"}
          IN /\ DOMAIN docs = DOMAIN registrations
             /\ renderCalls \subseteq DOMAIN registrations
             /\ Len(zip.entries) = Cardinality(ok)
             /\ \A k \in DOMAIN zip.entries :
                  \E j \in ok :
                    /\ zip.entries[k] = Filename(registrations[j])
                    /\ Cardinality({x \in ok : x < j}) = k - 1)

\* a completed run over more than one batch in which a render of the first
\* batch failed and the applicants of both batches got their files
C28_Witness ==
  /\ pc = "done"
  /\ Len(registrations) > batchSize
  /\ \E j \in 1..batchSize : batchResults[j] = "null" /\ j \in renderCalls
  /\ \E j \in 1..batchSize : batchResults[j] = "file"
  /\ \E j \in DOMAIN registrations : j > batchSize /\ batchResults[j] = "file"
  /\ Len(zip.entries) >= 2

\* C29: failures are not cached. A getOrSet call whose supplier throws hands
\* the error to its caller after one call of the supplier and leaves both
\* stores and the timers as they were; afterwards the store that the call
\* read holds no entry for the key, so the next request runs the query again.
C29_FailuresNotCached ==
  /\ [][(ret' # ret /\ ret'.op = "getOrSet" /\ ret'.raised) =>
          /\ cache' = cache
          /\ redis' = redis
          /\ timers' = timers
          /\ written' = written]_vars
  /\ [](ret.op = "getOrSet" /\ ret.raised =>
          /\ ret.supplierCalls = 1
          /\ ~ret.found
          /\ IF ret.shared /\ ~ret.threw
             THEN ~RedisGet(ret.key).found
             ELSE ret.key \notin DOMAIN cache)

\* the supplier of a getOrSet call threw while the cache held an entry for
\* another key, and no entry for the key of the call
C29_Witness ==
  /\ ret.op = "getOrSet"
  /\ ret.raised
  /\ ret.key \notin DOMAIN cache
  /\ DOMAIN cache # {}

\* the cachedQuery calls of a completed run: the two basic fetches and the
\* fetch of the registrations, the two preload fetches unless they return
\* early, and the fetch of the parent field values when there is a link
CachedQueryCalls ==
  LET ids == AllRegIds(phases, registrationsByPhase)
      One(b) == IF b THEN 1 ELSE 0
  IN Cardinality({"children", "phases", "registrations"})
     + One(ids # <<>>)
     + One(ids # <<>> /\ phases # <<>>)
     + One(ValidParentIds(parentRegIdMap) # <<>>)

\* C30: the cache metrics are consistent. Every cachedQuery call counts as
\* one hit or as one miss, never as both: when a run has completed,
\* cacheHits + cacheMisses is the number of cachedQuery calls of the run and
\* cacheMisses is totalQueries.
C30_MetricsConsistent ==
  pc = "done" =>
    /\ metrics.cacheHits + metrics.cacheMisses = CachedQueryCalls
    /\ metrics.cacheMisses = metrics.totalQueries

====
